---- MODULE Spec2Model ----
(***************************************************************************)
(* Verification model of the amsat ground-station tracker.                 *)
(*                                                                         *)
(* Part 1: the GS-232B tracking loop (runPredictionTool.animate) and the   *)
(* serial transport (gs232.SerialManager, gs232.commands).                 *)
(* Part 2: tracking sessions and the ports they hold; the SerialManager    *)
(* on its own; the visibility scanner (pass_visibility.py).                *)
(* Part 3: single calls of the element parser (keplerian_parser.py), of    *)
(* the time vector and element conversion (TimeRoutines.py, tle_to_kep.py) *)
(* and of the command helpers (gs232.commands).                            *)
(* Part 4: the element download (fetch_tle.py), the sweep page of the      *)
(* calibration wizard with its worker thread (calibration_wizard.py), the  *)
(* readers of element files (pass_visibility.py, main_gs232b.py) and the   *)
(* live prediction (kep_to_state.py).                                      *)
(*                                                                         *)
(* Specifications: Spec and SpecWrap (tracking loop, two sets of inputs),  *)
(* SpecSession, SpecSerial, SpecScan, SpecVisibility, SpecParse, SpecKep,  *)
(* SpecCommands, SpecFetch, SpecSweep, SpecTle, SpecLive.  Each leaves the *)
(* variables of the other parts at their initial values.                   *)
(*                                                                         *)
(* Units.  The program computes in floating point degrees and seconds.     *)
(* The model uses exact integer arithmetic: angles are in millidegrees     *)
(* (1 deg = 1000) and times in milliseconds (1 s = 1000), so that 8 deg/s  *)
(* is 8 mdeg/ms.  Every constant of the source is the source's value       *)
(* times 1000 (rates keep their value).  Python's round() is modelled as   *)
(* round-half-to-even on exact values.                                     *)
(***************************************************************************)
EXTENDS Integers, Sequences, FiniteSets, TLC

VARIABLES
    clock,           \* timestamp (ms) of the latest tick: datetime.utcnow()
    has_tle,         \* tle_lookup holds the driving satellite (fixed per session)
    smoothed,        \* smoothed = {"az":..., "el":...}
    last_cmd,        \* last_cmd = {"az":..., "el":...}
    last_sent_time,  \* last_sent_time[0]
    ser,             \* SerialManager.ser: None or the port that is open
    last_open_port,  \* SerialManager.last_open_port
    cmd_echo,        \* the line the latest tick appended to the serial console
    loop,            \* "running", or "crashed" once an exception left animate
    raw,             \* az_0to360 / el_deg computed by the latest tick
    slew,            \* dt and the per-axis dv applied by the latest tick
    wire,            \* payloads the latest tick wrote to the port, in order
    io,              \* what happened inside the latest send_move call
    last_move_time,  \* timestamp of the latest tick that wrote a W command
    moves,           \* number of ticks that wrote a W command (counted up to 2)
    held,            \* ports still open in the SerialManagers of earlier sessions
    wizard,          \* the calibration wizard's SerialManager (on: a wizard runs)
    call,            \* the latest SerialManager call made outside a tick
    scan,            \* the latest _compute_passes_for_sat call: inputs and result
    calc             \* the latest call of a function of the element pipeline or
                     \* of gs232.commands: arguments and result

tracker_vars == <<clock, has_tle, smoothed, last_cmd, last_sent_time, ser,
                  last_open_port, cmd_echo, loop, raw, slew, wire, io,
                  last_move_time, moves>>
vars == <<clock, has_tle, smoothed, last_cmd, last_sent_time, ser,
          last_open_port, cmd_echo, loop, raw, slew, wire, io, last_move_time,
          moves, held, wizard, call, scan, calc>>

\* Python's None (outside every angle, time and port range of the model).
None == -1000000

(***************************************************************************)
(* Bounds of the model.                                                    *)
(***************************************************************************)
StartTime == 1000          \* clock value when the session starts (> 0)
MaxTime == 3900            \* ticks are explored up to this clock value
NumPorts == 2              \* number of candidate ports

\* Tick spacings (ms): a timer period shorter than the minimum interval,
\* exactly the minimum interval, and a stall longer than the 2 s dt ceiling.
\* (No spacing under 50 ms is drawn, so the 0.05 s floor of dt never binds.)
TickSteps == {800, 1000, 2100}
\* Raw azimuths (mdeg, in [0, 360000)): two values 0.3 deg apart, one more
\* than 16 deg away from them, and one on the other side of the 0/360 wrap.
RawAz == {1000, 1300, 30000, 359000}
\* Raw elevations (mdeg): below the horizon, and two values more than
\* 12 deg apart.
RawEl == {-5000, 74000, 86900}

(***************************************************************************)
(* Anti-jitter knobs (main_gs232b.py).                                     *)
(***************************************************************************)
AZ_DEADBAND_DEG == 400
EL_DEADBAND_DEG == 300
MIN_INTERVAL_S == 1000
AZ_SLEW_DEG_PER_S == 8
EL_SLEW_DEG_PER_S == 6
QUANT_STEP_DEG == 200
\* a threshold no elevation of a pass reaches
ZENITH_FREEZE_DEG_off == 181 * 1000
ZENITH_FREEZE_DEG == 87000
USE_AZ_UNWRAP == TRUE
\* literals of the dt expression and of the clamps
DT_MAX == 2000
DT_MIN == 50
DT_FIRST == 600
SLEW_DT_FLOOR == 1
AZ_CMD_MAX == 450000
EL_CMD_MAX == 180000
FULL_TURN == 360000
DEG == 1000

Abs(x) == IF x < 0 THEN -x ELSE x
Min2(a, b) == IF a < b THEN a ELSE b
Max2(a, b) == IF a > b THEN a ELSE b

\* Python round(n / d) for integers n and d > 0: nearest, ties to even.
PyRound(n, d) ==
    LET q == n \div d
        r == n % d
    IN  IF 2 * r < d THEN q
        ELSE IF 2 * r > d THEN q + 1
        ELSE IF q % 2 = 0 THEN q ELSE q + 1

\* unwrap_az that keeps the raw azimuth (no re-expression)
unwrap_az_raw(prev, new_0to360) == new_0to360

\* unwrap_az: the candidate nearest prev; min() keeps the first of equals.
unwrap_az(prev, new_0to360) ==
    IF prev = None THEN new_0to360
    ELSE LET c1 == new_0to360
             c2 == new_0to360 + FULL_TURN
             c3 == new_0to360 - FULL_TURN
             best12 == IF Abs(c2 - prev) < Abs(c1 - prev) THEN c2 ELSE c1
         IN  IF Abs(c3 - prev) < Abs(best12 - prev) THEN c3 ELSE best12

quantize(v) == PyRound(v, QUANT_STEP_DEG) * QUANT_STEP_DEG

slew_toward(current, target, max_rate_deg_s, dt) ==
    IF current = None THEN target
    ELSE LET max_delta == max_rate_deg_s * Max2(dt, SLEW_DT_FLOOR)
             dv0 == target - current
             dv1 == IF dv0 > max_delta THEN max_delta ELSE dv0
             dv2 == IF dv1 < -max_delta THEN -max_delta ELSE dv1
         IN  current + dv2

\* tick_dt without the 2.0 s ceiling
tick_dt_no_ceiling(now, lst) ==
    Max2(DT_MIN, IF lst > 0 THEN now - lst ELSE DT_FIRST)

\* dt = min(2.0, max(0.05, now - last_sent_time if last_sent_time > 0 else 0.6))
tick_dt(now, lst) ==
    Min2(DT_MAX, Max2(DT_MIN, IF lst > 0 THEN now - lst ELSE DT_FIRST))

\* clamp_az without the lower limit
clamp_az_no_floor(v) == Min2(AZ_CMD_MAX, v)

clamp_az(v) == Max2(0, Min2(AZ_CMD_MAX, v))
clamp_el(v) == Max2(0, Min2(EL_CMD_MAX, v))

(***************************************************************************)
(* gs232/commands.py: command text.  A string is a sequence of one-        *)
(* character strings; "CR" and "LF" stand for the two line-end characters. *)
(***************************************************************************)
DigitChar == <<"0", "1", "2", "3", "4", "5", "6", "7", "8", "9">>

RECURSIVE DecDigits(_)
DecDigits(n) ==
    IF n < 10 THEN <<DigitChar[n + 1]>>
    ELSE Append(DecDigits(n \div 10), DigitChar[(n % 10) + 1])

RECURSIVE ZeroPad(_, _)
ZeroPad(s, width) == IF Len(s) >= width THEN s ELSE ZeroPad(<<"0">> \o s, width)

\* f"{n:03d}": sign first, then zeros up to a total width of 3.
Fmt03d(n) ==
    IF n >= 0 THEN ZeroPad(DecDigits(n), 3)
    ELSE <<"-">> \o ZeroPad(DecDigits(-n), 2)

\* format_move with int() alone: the fraction is cut off, not rounded
format_move_truncating(az_deg, el_deg) ==
    LET az == az_deg \div DEG
        el == el_deg \div DEG
    IN  <<"W">> \o Fmt03d(az) \o <<" ">> \o Fmt03d(el)

format_move(az_deg, el_deg) ==
    LET az == PyRound(az_deg, DEG)
        el == PyRound(el_deg, DEG)
    IN  <<"W">> \o Fmt03d(az) \o <<" ">> \o Fmt03d(el)

STATUS_CMD == <<"C", "2">>
STOP_CMD == <<"S">>
EmptyStr == <<>>

RECURSIVE rstrip(_)
rstrip(s) ==
    IF s # <<>> /\ s[Len(s)] \in {" ", "CR", "LF"}
    THEN rstrip(SubSeq(s, 1, Len(s) - 1))
    ELSE s

\* payload = (cmd_str.rstrip() + "\r\n").encode("ascii", errors="ignore")
Payload(cmd_str) == rstrip(cmd_str) \o <<"CR", "LF">>

(***************************************************************************)
(* gs232/serial_manager.py.  The manager state is m = [ser, last_open_port]*)
(* The environment of one call is: up, the set of ports that can be opened *)
(* now; the outcome of each write attempt ("ok", "serial" for a            *)
(* SerialException, "other" for any other exception); and the outcome of   *)
(* the read ("line", "timeout", "error").                                  *)
(***************************************************************************)
Ports == 1..NumPorts
candidates == [i \in 1..NumPorts |-> i]
WriteOutcomes == {"ok", "serial", "other"}
ReadOutcomes == {"line", "timeout", "error"}
\* the line a healthy controller answers to C2
C2Reply == <<"+", "0", "1", "8", "0", "+", "0", "0", "9", "0">>

\* ports_to_try in configured order, whatever port opened last
ports_to_try_configured(m) == candidates

ports_to_try(m) ==
    (IF m.last_open_port # None THEN <<m.last_open_port>> ELSE <<>>)
        \o SelectSeq(candidates, LAMBDA p : p # m.last_open_port)

\* the loop over ports_to_try; tried lists the ports Serial(...) was called
\* for, in order
RECURSIVE try_ports(_, _, _)
try_ports(ports, m, up) ==
    IF ports = <<>> THEN [ok |-> FALSE, m |-> m, tried |-> <<>>]
    ELSE IF Head(ports) \in up
         THEN [ok |-> TRUE,
               m |-> [ser |-> Head(ports), last_open_port |-> Head(ports)],
               tried |-> <<Head(ports)>>]
         ELSE LET r == try_ports(Tail(ports), [m EXCEPT !.ser = None], up)
              IN  [r EXCEPT !.tried = <<Head(ports)>> \o @]

open_any(m, up) == try_ports(ports_to_try(m), m, up)

ensure_open(m, up) ==
    IF m.ser # None THEN [ok |-> TRUE, m |-> m, tried |-> <<>>]
    ELSE open_any(m, up)

close(m) == [m EXCEPT !.ser = None]

\* An exception is "SerialException" or "Exception" (any other class);
\* "none" means the call returned.  `except handler` catches exc when exc
\* is an instance of handler: SerialException is a subclass of Exception.
\* Catches when every handler is written `except SerialException`
Catches_serial_only(handler, exc) == exc = "SerialException"

Catches(handler, exc) ==
    \/ exc = handler
    \/ handler = "Exception" /\ exc = "SerialException"

\* _write_raw: exc is "none", "SerialException" or "Exception".
write_raw(m, up, w, bcmd, outcome) ==
    LET e == ensure_open(m, up)
    IN  IF ~e.ok THEN [m |-> e.m, wire |-> w, exc |-> "SerialException"]
        ELSE IF outcome = "ok"
             THEN [m |-> e.m, wire |-> Append(w, bcmd), exc |-> "none"]
        ELSE IF outcome = "serial"
             THEN [m |-> e.m, wire |-> w, exc |-> "SerialException"]
        ELSE [m |-> e.m, wire |-> w, exc |-> "Exception"]

\* _readline: every exception of the read is swallowed into "".
readline(m, up, rd) ==
    LET e == ensure_open(m, up)
    IN  IF ~e.ok THEN [m |-> e.m, ret |-> EmptyStr]
        ELSE IF rd = "line" THEN [m |-> e.m, ret |-> C2Reply]
        ELSE [m |-> e.m, ret |-> EmptyStr]

\* write_cmd, from loop iteration `attempt` on; outs[k] is the outcome of
\* the k-th write attempt.  tries counts the _write_raw calls made, reopens
\* the passes through the except branch (close, sleep, ensure_open).
RECURSIVE write_cmd_from(_, _, _, _, _, _, _, _, _)
write_cmd_from(m, up, w, payload, expect_reply, retries, attempt, outs, rd) ==
    IF attempt > retries
    THEN [m |-> m, wire |-> w, ret |-> EmptyStr, exc |-> "none",
          tries |-> attempt, reopens |-> 0]
    ELSE LET x == write_raw(m, up, w, payload, outs[attempt + 1])
         IN  IF x.exc = "none"
             THEN IF expect_reply
                  THEN LET r == readline(x.m, up, rd)
                       IN  [m |-> r.m, wire |-> x.wire, ret |-> r.ret,
                            exc |-> "none", tries |-> attempt + 1,
                            reopens |-> 0]
                  ELSE [m |-> x.m, wire |-> x.wire, ret |-> EmptyStr,
                        exc |-> "none", tries |-> attempt + 1, reopens |-> 0]
             ELSE IF Catches("SerialException", x.exc)
             THEN LET e == ensure_open(close(x.m), up)
                      r == write_cmd_from(e.m, up, x.wire, payload, expect_reply,
                                          retries, attempt + 1, outs, rd)
                  IN  [r EXCEPT !.reopens = @ + 1]
             ELSE [m |-> x.m, wire |-> x.wire, ret |-> EmptyStr,
                   exc |-> "Exception", tries |-> attempt + 1, reopens |-> 0]

\* write_cmd whose loop runs once more than retries allows
write_cmd_once_more(m, up, w, cmd_str, expect_reply, retries, outs, rd) ==
    write_cmd_from(m, up, w, Payload(cmd_str), expect_reply, retries + 1, 0,
                   outs, rd)

write_cmd(m, up, w, cmd_str, expect_reply, retries, outs, rd) ==
    write_cmd_from(m, up, w, Payload(cmd_str), expect_reply, retries, 0, outs, rd)

\* send_move.  f is the environment of the call: f.up, f.w (outcomes of the
\* W write attempts), f.c (outcomes of the C2 write attempts), f.rd.
\* caught: the except branch ran; raised: an exception left send_move.
\* (close and ensure_open, called by the except branch, raise nothing.)
send_move(m, az, el, echo_c2, f) ==
    LET cmd == format_move(az, el)
        a == write_cmd(m, f.up, <<>>, cmd, FALSE, 1, f.w, f.rd)
        b == IF a.exc = "none" /\ echo_c2
             THEN write_cmd(a.m, f.up, a.wire, STATUS_CMD, TRUE, 1, f.c, f.rd)
             ELSE a
        exc == IF a.exc # "none" THEN a.exc ELSE b.exc
        caught == exc # "none" /\ Catches("Exception", exc)
    IN  [cmd |-> cmd,
         reply |-> IF exc = "none" THEN b.ret ELSE EmptyStr,
         m |-> IF caught THEN ensure_open(close(b.m), f.up).m ELSE b.m,
         wire |-> b.wire,
         caught |-> caught,
         raised |-> exc # "none" /\ ~caught]

\* stop that sends the status query instead
stop_as_query(m, f) == write_cmd(m, f.up, <<>>, STATUS_CMD, FALSE, 1, f.w, f.rd)

\* stop: write_cmd("S", expect_reply=False), with the default retries=1
stop(m, f) == write_cmd(m, f.up, <<>>, STOP_CMD, FALSE, 1, f.w, f.rd)

\* c2 / query_c2: write_cmd("C2", expect_reply=True)
query_c2(m, f) == write_cmd(m, f.up, <<>>, STATUS_CMD, TRUE, 1, f.w, f.rd)

(***************************************************************************)
(* The environment of one send_move call, as drawn by a sending tick.      *)
(* Outcomes of attempts the call never makes are fixed, so that each       *)
(* distinguishable behaviour of the link is drawn once.                    *)
(***************************************************************************)
Raises(o) == o[1] = "other" \/ (o[1] = "serial" /\ o[2] = "other")
Written(o) == o[1] = "ok" \/ (o[1] = "serial" /\ o[2] = "ok")

\* outcomes of the two write attempts of one write_cmd call
WritePatterns ==
    {<<"ok", "ok">>, <<"serial", "ok">>, <<"serial", "serial">>,
     <<"serial", "other">>, <<"other", "ok">>}

\* during one tick either no candidate port can be opened or all can
LinkUp == {{}, Ports}

FaultScripts ==
    {[up |-> u, w |-> w, c |-> <<"ok", "ok">>, rd |-> "line"] :
        u \in LinkUp, w \in {p \in WritePatterns : Raises(p)}}
    \cup
    {[up |-> u, w |-> w, c |-> c, rd |-> "line"] :
        u \in LinkUp, w \in {p \in WritePatterns : ~Raises(p)},
        c \in {p \in WritePatterns : ~Written(p)}}
    \cup
    {[up |-> u, w |-> w, c |-> c, rd |-> rd] :
        u \in LinkUp, w \in {p \in WritePatterns : ~Raises(p)},
        c \in {p \in WritePatterns : Written(p)}, rd \in ReadOutcomes}

(***************************************************************************)
(* runPredictionTool.animate: one tick of the tracking loop.               *)
(***************************************************************************)
IsMove(payload) == payload # <<>> /\ payload[1] = "W"
HasMove(w) == \E i \in 1..Len(w) : IsMove(w[i])

NoSlew == [dt |-> None, az |-> 0, el |-> 0]
NoIo == [sent |-> FALSE, caught |-> FALSE]
Echo(kind, az, el, sent_cmd, reply) ==
    [kind |-> kind, az |-> az, el |-> el, sent_cmd |-> sent_cmd, reply |-> reply]

\* the tick returns before the anti-jitter block: no TLE for the name
TickNoTle ==
    /\ cmd_echo' = Echo("WARN", None, None, EmptyStr, EmptyStr)
    /\ raw' = [az |-> None, el |-> None]
    /\ slew' = NoSlew
    /\ wire' = <<>>
    /\ io' = NoIo
    /\ UNCHANGED <<smoothed, last_cmd, last_sent_time, ser, last_open_port,
                   loop, last_move_time, moves>>

\* TickHold that forgets the smoothed state while holding
TickHold_reset ==
    /\ cmd_echo' = Echo("HOLD", None, None, EmptyStr, EmptyStr)
    /\ slew' = NoSlew
    /\ wire' = <<>>
    /\ io' = NoIo
    /\ smoothed' = [az |-> None, el |-> None]
    /\ UNCHANGED <<last_cmd, last_sent_time, ser, last_open_port,
                   loop, last_move_time, moves>>

TickHold ==
    /\ cmd_echo' = Echo("HOLD", None, None, EmptyStr, EmptyStr)
    /\ slew' = NoSlew
    /\ wire' = <<>>
    /\ io' = NoIo
    /\ UNCHANGED <<smoothed, last_cmd, last_sent_time, ser, last_open_port,
                   loop, last_move_time, moves>>

\* in_deadband with the quantization step taken for both deadbands
in_deadband_step(az_cmd, el_cmd, lc) ==
    /\ lc.az # None /\ lc.el # None
    /\ Abs(az_cmd - lc.az) < QUANT_STEP_DEG
    /\ Abs(el_cmd - lc.el) < QUANT_STEP_DEG

\* the deadband test against the last command
in_deadband(az_cmd, el_cmd, lc) ==
    /\ lc.az # None /\ lc.el # None
    /\ Abs(az_cmd - lc.az) < AZ_DEADBAND_DEG
    /\ Abs(el_cmd - lc.el) < EL_DEADBAND_DEG

\* rate_limited with the comparison turned round
rate_limited_inverted(now, lst) == lst > 0 /\ (now - lst) > MIN_INTERVAL_S

\* the minimum-interval test
rate_limited(now, lst) == lst > 0 /\ (now - lst) < MIN_INTERVAL_S

\* The locals of the tick are bound once each (\E over a one-element set).
TickTrack(now, az_0to360, el_deg) ==
    LET s_az0 == IF smoothed.az = None THEN az_0to360 ELSE smoothed.az
        s_el0 == IF smoothed.el = None THEN el_deg ELSE smoothed.el
        unwrapped == IF USE_AZ_UNWRAP THEN unwrap_az(s_az0, az_0to360)
                     ELSE az_0to360
        target_azc == IF el_deg >= ZENITH_FREEZE_DEG THEN s_az0 ELSE unwrapped
        dt == tick_dt(now, last_sent_time)
    IN
    \E s_az \in {slew_toward(s_az0, target_azc, AZ_SLEW_DEG_PER_S, dt)},
       s_el \in {slew_toward(s_el0, el_deg, EL_SLEW_DEG_PER_S, dt)} :
    \E az_cmd \in {clamp_az(quantize(s_az))},
       el_cmd \in {clamp_el(quantize(s_el))} :
        /\ smoothed' = [az |-> s_az, el |-> s_el]
        /\ slew' = [dt |-> dt, az |-> s_az - s_az0, el |-> s_el - s_el0]
        /\ IF in_deadband(az_cmd, el_cmd, last_cmd)
           THEN /\ cmd_echo' = Echo("SKIP (deadband)", az_cmd, el_cmd,
                                    EmptyStr, EmptyStr)
                /\ wire' = <<>>
                /\ io' = NoIo
                /\ UNCHANGED <<last_cmd, last_sent_time, ser, last_open_port,
                               loop, last_move_time, moves>>
           ELSE IF rate_limited(now, last_sent_time)
           THEN /\ cmd_echo' = Echo("SKIP (rate-limit)", az_cmd, el_cmd,
                                    EmptyStr, EmptyStr)
                /\ wire' = <<>>
                /\ io' = NoIo
                /\ UNCHANGED <<last_cmd, last_sent_time, ser, last_open_port,
                               loop, last_move_time, moves>>
           ELSE \E f \in FaultScripts :
                \E r \in {send_move([ser |-> ser, last_open_port |-> last_open_port],
                                     az_cmd, el_cmd, TRUE, f)} :
                    /\ ser' = r.m.ser
                    /\ last_open_port' = r.m.last_open_port
                    /\ wire' = r.wire
                    /\ io' = [sent |-> TRUE, caught |-> r.caught]
                    /\ last_move_time' = IF HasMove(r.wire) THEN now
                                          ELSE last_move_time
                    /\ moves' = IF HasMove(r.wire) THEN Min2(moves + 1, 2)
                                 ELSE moves
                    /\ IF r.raised
                       THEN \* the exception leaves animate before last_cmd is set
                            /\ loop' = "crashed"
                            /\ cmd_echo' = cmd_echo
                            /\ UNCHANGED <<last_cmd, last_sent_time>>
                       ELSE /\ loop' = loop
                            /\ last_cmd' = [az |-> az_cmd, el |-> el_cmd]
                            /\ last_sent_time' = now
                            /\ cmd_echo' =
                                 IF r.reply # EmptyStr
                                 THEN Echo("echo", az_cmd, el_cmd, r.cmd, r.reply)
                                 ELSE Echo("(no echo)", az_cmd, el_cmd, r.cmd, EmptyStr)

\* one tick, its spacing and raw angles drawn from the given sets
TickWith(steps, azs, els) ==
    /\ loop = "running"
    /\ \E d \in steps :
         LET now == clock + d
         IN  /\ now <= MaxTime
             /\ clock' = now
             /\ has_tle' = has_tle
             /\ IF ~has_tle THEN TickNoTle
                ELSE \E az \in azs, el \in els :
                       /\ raw' = [az |-> az, el |-> el]
                       /\ IF el < 0 THEN TickHold ELSE TickTrack(now, az, el)
    /\ UNCHANGED <<held, wizard, call, scan, calc>>

Tick == TickWith(TickSteps, RawAz, RawEl)

NoCall == [op |-> "none"]
NoWizard == [on |-> FALSE, ser |-> None, last_open_port |-> None]
NoScan == [done |-> FALSE]
NoCalc == [done |-> FALSE]
\* nothing but the tracking session exists
Alone ==
    /\ held = {}
    /\ wizard = NoWizard
    /\ call = NoCall
    /\ scan = NoScan
    /\ calc = NoCalc

\* State after runPredictionTool has built the SerialManager (whose
\* constructor calls _open_any) and the anti-jitter state.
Init ==
    /\ clock = StartTime
    /\ has_tle \in BOOLEAN
    /\ smoothed = [az |-> None, el |-> None]
    /\ last_cmd = [az |-> None, el |-> None]
    /\ last_sent_time = 0
    /\ \E up \in LinkUp :
         LET m == open_any([ser |-> None, last_open_port |-> None], up).m
         IN  ser = m.ser /\ last_open_port = m.last_open_port
    /\ cmd_echo = Echo("", None, None, EmptyStr, EmptyStr)
    /\ loop = "running"
    /\ raw = [az |-> None, el |-> None]
    /\ slew = NoSlew
    /\ wire = <<>>
    /\ io = NoIo
    /\ last_move_time = None
    /\ moves = 0
    /\ Alone

Next == Tick

Spec == Init /\ [][Next]_vars

(***************************************************************************)
(* Properties of the tracking loop.                                        *)
(***************************************************************************)
\* a step of the tracking loop (every tick reads a later clock)
IsTick == clock' # clock
\* the tick computed an elevation at or above the horizon
Tracked(r) == r.el # None /\ r.el >= 0
Held(r) == r.el # None /\ r.el < 0
\* the clamped, quantized target of a smoothed state
AzCmd(s) == clamp_az(quantize(s.az))
ElCmd(s) == clamp_el(quantize(s.el))
SentKinds == {"echo", "(no echo)"}

\* C1 (deadband): in a tick with elevation >= 0 that follows a send, if the
\* clamped quantized target is less than 0.4 deg in azimuth and less than
\* 0.3 deg in elevation from the last sent command, the tick writes nothing
\* and reports SKIP (deadband).
C1_Deadband ==
    [][(/\ IsTick /\ Tracked(raw')
        /\ last_cmd.az # None /\ last_cmd.el # None
        /\ Abs(AzCmd(smoothed') - last_cmd.az) < AZ_DEADBAND_DEG
        /\ Abs(ElCmd(smoothed') - last_cmd.el) < EL_DEADBAND_DEG)
       => (wire' = <<>> /\ cmd_echo'.kind = "SKIP (deadband)"
           /\ last_cmd' = last_cmd)]_vars

\* a deadband skip of a target that differs from the last command
C1_Witness ==
    /\ cmd_echo.kind = "SKIP (deadband)"
    /\ wire = <<>>
    /\ AzCmd(smoothed) # last_cmd.az

\* C2 (minimum interval): two ticks that write a move command are at least
\* MIN_INTERVAL_S apart by their timestamps, and a tick outside the deadband
\* that comes sooner after a written move reports SKIP (rate-limit).
C2_MinInterval ==
    [][(IsTick /\ last_move_time # None)
       => /\ HasMove(wire') => clock' - last_move_time >= MIN_INTERVAL_S
          /\ (/\ Tracked(raw')
              /\ clock' - last_move_time < MIN_INTERVAL_S
              /\ ~in_deadband(AzCmd(smoothed'), ElCmd(smoothed'), last_cmd))
             => (cmd_echo'.kind = "SKIP (rate-limit)" /\ wire' = <<>>)]_vars

\* a second move written exactly MIN_INTERVAL_S after the previous send
C2_Witness ==
    /\ moves = 2
    /\ HasMove(wire)
    /\ slew.dt = MIN_INTERVAL_S

\* C3 (hold): a tick whose elevation is below 0 reports HOLD, writes nothing
\* and leaves smoothed, last_cmd and last_sent_time unchanged.
C3_HoldBelowHorizon ==
    [][(IsTick /\ Held(raw'))
       => /\ cmd_echo'.kind = "HOLD"
          /\ wire' = <<>>
          /\ UNCHANGED <<smoothed, last_cmd, last_sent_time>>]_vars

\* a hold tick in a session that has already tracked and sent
C3_Witness ==
    /\ Held(raw)
    /\ cmd_echo.kind = "HOLD"
    /\ smoothed.az # None
    /\ last_cmd.az # None

\* the value of a run of decimal digits; -1 if some character is no digit
DigitOf(ch) ==
    IF \E i \in 1..10 : DigitChar[i] = ch
    THEN (CHOOSE i \in 1..10 : DigitChar[i] = ch) - 1
    ELSE -1
Digits3(p, i) ==
    IF DigitOf(p[i]) < 0 \/ DigitOf(p[i + 1]) < 0 \/ DigitOf(p[i + 2]) < 0
    THEN -1
    ELSE 100 * DigitOf(p[i]) + 10 * DigitOf(p[i + 1]) + DigitOf(p[i + 2])
\* 'W' + three digits + one space + three digits (then the line end),
\* azimuth in 0..450 and elevation in 0..180
WellFormedMove(p) ==
    /\ Len(p) = 10
    /\ p[1] = "W" /\ p[5] = " " /\ p[9] = "CR" /\ p[10] = "LF"
    /\ Digits3(p, 2) \in 0..450
    /\ Digits3(p, 6) \in 0..180

\* C4 (command range and format): every move command written to the link
\* is 'W' + 3 digits + space + 3 digits with azimuth 0..450, elevation 0..180.
C4_MoveFormat ==
    \A i \in 1..Len(wire) : IsMove(wire[i]) => WellFormedMove(wire[i])

\* a move written while the smoothed azimuth is below 0 (the clamp acted)
C4_Witness ==
    /\ HasMove(wire)
    /\ smoothed.az < -500
    /\ cmd_echo.az = 0

\* C5 as claimed: last_cmd and last_sent_time change only in a tick that
\* wrote a move command to the link.
C5_UpdateOnlyOnSend ==
    [][(IsTick /\ (last_cmd' # last_cmd \/ last_sent_time' # last_sent_time))
       => HasMove(wire')]_vars

\* C6 as claimed: a tick whose send wrote no move command does not report
\* it as sent (with or without echo).
C6_FailureSurfaced ==
    (io.sent /\ ~HasMove(wire)) => cmd_echo.kind \notin SentKinds

\* C7 as claimed: when the latest tick failed to transmit its move and no
\* move was ever transmitted, the next tick at or above the horizon attempts
\* the transmission again (it is not skipped by either gate).
C7_RetryNextTick ==
    [][(/\ IsTick /\ Tracked(raw')
        /\ io.sent /\ ~HasMove(wire) /\ moves = 0)
       => io'.sent]_vars

\* C8 (no crash): whatever the link does, send_move returns to the tick: the
\* loop keeps running, and a tick that called send_move reports its line.
C8_NoCrash ==
    /\ loop = "running"
    /\ io.sent => cmd_echo.kind \in SentKinds

\* a tick survived an exception other than SerialException, with no port open
C8_Witness ==
    /\ io.sent /\ io.caught
    /\ ser = None
    /\ loop = "running"

\* C9 as claimed: after initialisation each smoothed axis changes in a tick
\* by at most its rate limit times the time elapsed since the previous tick.
C9_SlewRealTime ==
    [][(IsTick /\ Tracked(raw') /\ smoothed.az # None)
       => /\ Abs(smoothed'.az - smoothed.az) <= AZ_SLEW_DEG_PER_S * (clock' - clock)
          /\ Abs(smoothed'.el - smoothed.el) <= EL_SLEW_DEG_PER_S * (clock' - clock)]_vars

\* C10 (bounded jump): after initialisation one tick changes the smoothed
\* azimuth by at most 16 deg and the smoothed elevation by at most 12 deg.
C10_BoundedJump ==
    [][(IsTick /\ smoothed.az # None)
       => /\ Abs(smoothed'.az - smoothed.az) <= AZ_SLEW_DEG_PER_S * DT_MAX
          /\ Abs(smoothed'.el - smoothed.el) <= EL_SLEW_DEG_PER_S * DT_MAX]_vars

\* a tick after a stall that moved both axes by the full 16 and 12 deg
C10_Witness ==
    /\ slew.dt = DT_MAX
    /\ Abs(slew.az) = 16000
    /\ Abs(slew.el) = 12000

(***************************************************************************)
(* The tracking loop near the 0/360 wrap and near the zenith.              *)
(***************************************************************************)
\* Tick spacings (ms) under and at the minimum interval.
WrapSteps == {800, 1000}
\* Raw azimuths (mdeg) on both sides of the 0/360 boundary.
WrapAz == {359000, 1000, 3000}
\* Raw elevations (mdeg): one well under the zenith threshold and two above
\* it that are 0.8 deg apart and round to the same whole degree.
WrapEl == {74000, 87600, 88400}

TickWrap == TickWith(WrapSteps, WrapAz, WrapEl)

NextWrap == TickWrap

SpecWrap == Init /\ [][NextWrap]_vars

\* the three re-expressions of a raw azimuth
AzCandidates(az_0to360) == {az_0to360, az_0to360 + FULL_TURN, az_0to360 - FULL_TURN}
HALF_TURN == FULL_TURN \div 2

C12_KeyholeGuard ==
    [][(/\ IsTick /\ Tracked(raw') /\ smoothed.az # None
        /\ raw'.el > 87 * DEG)
       => /\ smoothed'.az = smoothed.az
          /\ smoothed'.el = slew_toward(smoothed.el, raw'.el, EL_SLEW_DEG_PER_S,
                                        slew'.dt)]_vars

\* above 87 deg the smoothed azimuth stayed at 359 against a raw azimuth of
\* 3 deg while the smoothed elevation climbed
C12_Witness ==
    /\ raw.el # None /\ raw.el > 87 * DEG
    /\ raw.az = 3000
    /\ smoothed.az = 359000
    /\ slew.az = 0
    /\ slew.el > 0

\* the move command among the payloads of a tick
MoveOf(w) == w[CHOOSE i \in 1..Len(w) : IsMove(w[i])]

\* C13 as claimed: two ticks in a row that each transmit a move command
\* transmit different texts.
C13_NoDuplicateMove ==
    [][(IsTick /\ HasMove(wire) /\ HasMove(wire'))
       => MoveOf(wire') # MoveOf(wire)]_vars

(***************************************************************************)
(* Sessions.  The selector window starts a tracking session with Run       *)
(* Prediction (runPredictionTool) and the session's STOP + CLOSE button    *)
(* ends it; calibration_wizard.py is run on its own between sessions.      *)
(* Each session and each wizard run builds its own SerialManager.  Nothing *)
(* in runPredictionTool closes the session's manager: after the figure is  *)
(* closed its port stays open until the interpreter finalizes the Serial   *)
(* object, which may happen at any later moment or never.  Opening a port  *)
(* that another handle holds is the operating system's choice (`up`).      *)
(***************************************************************************)
\* the environment of one single-command call (stop, c2)
CmdScripts ==
    {[up |-> u, w |-> w, rd |-> rd] :
        u \in LinkUp, w \in WritePatterns, rd \in {"line", "timeout"}}

\* on_stop_clicked: ser_mgr.stop() inside try/except Exception, then
\* plt.close(fig), which ends the animation.
StopClose ==
    /\ loop = "running"
    /\ \E f \in CmdScripts :
       \E r \in {stop([ser |-> ser, last_open_port |-> last_open_port], f)} :
          /\ ser' = r.m.ser
          /\ last_open_port' = r.m.last_open_port
          /\ wire' = r.wire
          /\ call' = [op |-> "stop", tries |-> r.tries, exc |-> r.exc]
          /\ loop' = IF r.exc = "none" \/ Catches("Exception", r.exc)
                     THEN "closed" ELSE "crashed"
    /\ UNCHANGED <<clock, has_tle, smoothed, last_cmd, last_sent_time, cmd_echo,
                   raw, slew, io, last_move_time, moves, held, wizard, scan, calc>>

\* Run Prediction after a session has ended: runPredictionTool builds a new
\* SerialManager and fresh anti-jitter state; the manager of the ended
\* session is left as it was.
RunPrediction ==
    /\ loop = "closed"
    /\ held' = IF ser # None THEN held \cup {ser} ELSE held
    /\ has_tle' \in BOOLEAN
    /\ smoothed' = [az |-> None, el |-> None]
    /\ last_cmd' = [az |-> None, el |-> None]
    /\ last_sent_time' = 0
    /\ \E up \in LinkUp :
         \E m \in {open_any([ser |-> None, last_open_port |-> None], up).m} :
            ser' = m.ser /\ last_open_port' = m.last_open_port
    /\ cmd_echo' = Echo("", None, None, EmptyStr, EmptyStr)
    /\ loop' = "running"
    /\ raw' = [az |-> None, el |-> None]
    /\ slew' = NoSlew
    /\ wire' = <<>>
    /\ io' = NoIo
    /\ last_move_time' = None
    /\ moves' = 0
    /\ call' = NoCall
    /\ UNCHANGED <<clock, wizard, scan, calc>>

\* the interpreter finalizes the Serial object of the session that ended
FinalizeEnded ==
    /\ loop = "closed"
    /\ ser # None
    /\ ser' = None
    /\ UNCHANGED <<clock, has_tle, smoothed, last_cmd, last_sent_time,
                   last_open_port, cmd_echo, loop, raw, slew, wire, io,
                   last_move_time, moves, held, wizard, call, scan, calc>>

\* the interpreter finalizes the Serial object of an earlier session
FinalizeHeld ==
    /\ \E p \in held : held' = held \ {p}
    /\ UNCHANGED <<tracker_vars, wizard, call, scan, calc>>

\* calibration_wizard.py started on its own: sm = SerialManager()
WizardStart ==
    /\ loop = "closed"
    /\ ~wizard.on
    /\ \E up \in LinkUp :
         \E m \in {open_any([ser |-> None, last_open_port |-> None], up).m} :
            wizard' = [on |-> TRUE, ser |-> m.ser,
                       last_open_port |-> m.last_open_port]
    /\ UNCHANGED <<tracker_vars, held, call, scan, calc>>

\* the wizard reads the position: sm.c2()
WizardC2 ==
    /\ wizard.on
    /\ \E f \in CmdScripts :
       \E r \in {query_c2([ser |-> wizard.ser,
                           last_open_port |-> wizard.last_open_port], f)} :
          wizard' = [on |-> TRUE, ser |-> r.m.ser,
                     last_open_port |-> r.m.last_open_port]
    /\ UNCHANGED <<tracker_vars, held, call, scan, calc>>

\* the wizard ends: sm.close(), then the process exits
WizardExit ==
    /\ wizard.on
    /\ wizard' = NoWizard
    /\ UNCHANGED <<tracker_vars, held, call, scan, calc>>

\* one tick spacing and one raw direction are enough for the sessions
SessionSteps == {1000}
SessionAz == {30000}
SessionEl == {74000}
TickSession == TickWith(SessionSteps, SessionAz, SessionEl)

NextSession ==
    \/ TickSession
    \/ StopClose
    \/ RunPrediction
    \/ FinalizeEnded
    \/ FinalizeHeld
    \/ WizardStart
    \/ WizardC2
    \/ WizardExit

SpecSession == Init /\ [][NextSession]_vars

\* a step of on_stop_clicked
IsStop == loop = "running" /\ loop' # "running" /\ call'.op = "stop"
StopPayload == <<"S", "CR", "LF">>

\* C14 (immediate stop): whatever the command state and however recently a
\* move was sent, the stop action makes a write attempt of 'S', writes
\* nothing but 'S', leaves the link without 'S' written only after a failed
\* link (both attempts failed, or an exception), and leaves smoothed,
\* last_cmd and last_sent_time unchanged.
C14_ImmediateStop ==
    [][IsStop
       => /\ call'.tries >= 1
          /\ \A i \in 1..Len(wire') : wire'[i] = StopPayload
          /\ wire' = <<>> => (call'.tries = 2 \/ call'.exc # "none")
          /\ UNCHANGED <<smoothed, last_cmd, last_sent_time>>]_vars

\* 'S' written by a stop that came in the same instant as a written move
C14_Witness ==
    /\ loop = "closed"
    /\ call.op = "stop"
    /\ wire = <<StopPayload>>
    /\ moves >= 1
    /\ last_move_time = clock
    /\ last_sent_time = clock

\* the managers that hold port p open
Holders(p) ==
    (IF ser = p THEN {"session"} ELSE {})
        \cup (IF p \in held THEN {"earlier session"} ELSE {})
        \cup (IF wizard.on /\ wizard.ser = p THEN {"wizard"} ELSE {})

\* C15 as claimed: a session that has ended holds no port, and no port is
\* held open by more than one manager.
C15_ExclusivePort ==
    /\ loop = "closed" => ser = None
    /\ held = {}
    /\ \A p \in Ports : Cardinality(Holders(p)) <= 1

(***************************************************************************)
(* The SerialManager on its own: calls of ensure_open, close and write_cmd *)
(* in any order, each port separately openable or not during a call.       *)
(***************************************************************************)
MaxRetries == 2            \* write_cmd is called with retries in 0..MaxRetries

\* Outcomes of the write attempts of one call: k SerialExceptions, then
\* success or another exception.  (The loop ends at the first attempt that
\* does not raise SerialException, so what later attempts would do is fixed;
\* the list is longer than any call can use.)
AttemptOutcomes ==
    {[i \in 1..(MaxRetries + 2) |-> IF i <= k THEN "serial" ELSE x] :
        k \in 0..(MaxRetries + 2), x \in {"ok", "other"}}

\* expect_reply and, when a reply is read, the outcome of the read
ReplyModes ==
    {[expect_reply |-> FALSE, rd |-> "line"]}
        \cup {[expect_reply |-> TRUE, rd |-> rd] : rd \in ReadOutcomes}

Manager == [ser |-> ser, last_open_port |-> last_open_port]

\* ser_mgr.ensure_open()
MgrEnsureOpen ==
    /\ \E up \in SUBSET Ports :
       \E r \in {ensure_open(Manager, up)} :
          /\ ser' = r.m.ser
          /\ last_open_port' = r.m.last_open_port
          /\ call' = [op |-> "ensure_open", up |-> up, before |-> Manager,
                      tried |-> r.tried, ok |-> r.ok]
    /\ wire' = <<>>
    /\ UNCHANGED <<clock, has_tle, smoothed, last_cmd, last_sent_time, cmd_echo,
                   loop, raw, slew, io, last_move_time, moves, held, wizard,
                   scan, calc>>

\* ser_mgr.close()
MgrClose ==
    /\ ser' = close(Manager).ser
    /\ last_open_port' = close(Manager).last_open_port
    /\ call' = [op |-> "close", before |-> Manager]
    /\ wire' = <<>>
    /\ UNCHANGED <<clock, has_tle, smoothed, last_cmd, last_sent_time, cmd_echo,
                   loop, raw, slew, io, last_move_time, moves, held, wizard,
                   scan, calc>>

\* ser_mgr.write_cmd(cmd, expect_reply, retries)
MgrWriteCmd ==
    /\ \E up \in SUBSET Ports, retries \in 0..MaxRetries,
          outs \in AttemptOutcomes, mode \in ReplyModes :
       \E r \in {write_cmd(Manager, up, <<>>, STATUS_CMD, mode.expect_reply,
                           retries, outs, mode.rd)} :
          /\ ser' = r.m.ser
          /\ last_open_port' = r.m.last_open_port
          /\ wire' = r.wire
          /\ call' = [op |-> "write_cmd", up |-> up, before |-> Manager,
                      retries |-> retries, tries |-> r.tries,
                      reopens |-> r.reopens, exc |-> r.exc, ret |-> r.ret]
    /\ UNCHANGED <<clock, has_tle, smoothed, last_cmd, last_sent_time, cmd_echo,
                   loop, raw, slew, io, last_move_time, moves, held, wizard,
                   scan, calc>>

\* State after SerialManager(...): __init__ has called _open_any.
InitSerial ==
    /\ clock = StartTime
    /\ has_tle = FALSE
    /\ smoothed = [az |-> None, el |-> None]
    /\ last_cmd = [az |-> None, el |-> None]
    /\ last_sent_time = 0
    /\ \E up \in SUBSET Ports :
       \E r \in {open_any([ser |-> None, last_open_port |-> None], up)} :
          /\ ser = r.m.ser
          /\ last_open_port = r.m.last_open_port
          /\ call = [op |-> "open_any", up |-> up,
                     before |-> [ser |-> None, last_open_port |-> None],
                     tried |-> r.tried, ok |-> r.ok]
    /\ cmd_echo = Echo("", None, None, EmptyStr, EmptyStr)
    /\ loop = "closed"
    /\ raw = [az |-> None, el |-> None]
    /\ slew = NoSlew
    /\ wire = <<>>
    /\ io = NoIo
    /\ last_move_time = None
    /\ moves = 0
    /\ held = {}
    /\ wizard = NoWizard
    /\ scan = NoScan
    /\ calc = NoCalc

NextSerial ==
    \/ MgrEnsureOpen
    \/ MgrClose
    \/ MgrWriteCmd

SpecSerial == InitSerial /\ [][NextSerial]_vars

\* C16 (bounded retry): a write_cmd call makes at most retries+1 write
\* attempts and writes the command at most once; every attempt but a last
\* one that succeeded or raised was followed by one pass through close,
\* pause and reopen; a call in which every attempt failed with a
\* SerialException has made exactly retries+1 attempts and returns "".
C16_BoundedRetry ==
    call.op = "write_cmd"
    => /\ call.tries <= call.retries + 1
       /\ Len(wire) <= 1
       /\ call.reopens = IF wire # <<>> \/ call.exc # "none"
                         THEN call.tries - 1 ELSE call.tries
       /\ (wire = <<>> /\ call.exc = "none")
             => (call.tries = call.retries + 1 /\ call.ret = EmptyStr)

\* the default retries=1 against a device that is gone: two attempts, two
\* reopen attempts, no port open, nothing written, the call returned
C16_Witness ==
    /\ call.op = "write_cmd"
    /\ call.retries = 1
    /\ call.up = {}
    /\ call.tries = 2
    /\ call.reopens = 2
    /\ call.exc = "none"
    /\ ser = None
    /\ wire = <<>>

\* the order the claim gives: the last opened port, then the others as
\* configured
ExpectedOrder(last) ==
    IF last = None THEN candidates
    ELSE <<last>> \o SelectSeq(candidates, LAMBDA p : p # last)

\* the call went through _open_any
Opened(c) ==
    \/ c.op = "open_any"
    \/ c.op = "ensure_open" /\ c.before.ser = None

\* C17 (port selection order): when the manager opens or reopens the link,
\* the ports it tries are a duplicate-free prefix of: the last opened port,
\* then the other candidates in configured order; every tried port but the
\* last could not be opened; if the last tried port opens it is the open
\* port and the remembered one; otherwise all were tried, no port is open
\* and the remembered port is unchanged.
C17_PortOrder ==
    Opened(call)
    => LET order == ExpectedOrder(call.before.last_open_port)
           t == call.tried
           n == Len(call.tried)
       IN  /\ n <= Len(order)
           /\ \A i \in 1..n : t[i] = order[i]
           /\ \A i, j \in 1..n : t[i] = t[j] => i = j
           /\ \A i \in 1..(n - 1) : t[i] \notin call.up
           /\ IF n > 0 /\ t[n] \in call.up
              THEN call.ok /\ ser = t[n] /\ last_open_port = t[n]
              ELSE /\ ~call.ok
                   /\ n = Len(order)
                   /\ ser = None
                   /\ last_open_port = call.before.last_open_port

\* a reopen took the port opened last although the first configured port
\* could be opened too
C17_Witness ==
    /\ call.op = "ensure_open"
    /\ call.before.ser = None
    /\ call.before.last_open_port = 2
    /\ call.tried = <<2>>
    /\ 1 \in call.up
    /\ ser = 2

(***************************************************************************)
(* pass_visibility.py: _compute_passes_for_sat.  Times are whole seconds,  *)
(* elevations whole degrees.  The satellite's elevation is given by elev,  *)
(* indexed by sample number: sample k is taken at start_dt + k * dt_sec.   *)
(***************************************************************************)
MaxSamples == 5            \* samples an elevation profile provides
NO_PEAK_EL == -999

ScanStart == 100
\* window ends: on a sample of both steps, between two samples of both, and
\* on a sample of the 20 s step only
ScanEnds == {160, 170, 180}
ScanSteps == {20, 30}
ElLevels == {5, 10, 20, 40}
MinEls == {10, 20}
Profiles == [0..(MaxSamples - 1) -> ElLevels]

\* el_deg = alt.degrees of the sample taken at time t
elevation_at(elev, start_dt, dt_sec, t) == elev[(t - start_dt) \div dt_sec]

PassInterval(start, peak, end, max_el_deg) ==
    [start |-> start, peak |-> peak, end |-> end, max_el_deg |-> max_el_deg]

\* the state before the loop
ScanState0 ==
    [passes |-> <<>>, in_pass |-> FALSE, pass_start |-> None,
     pass_peak |-> None, pass_peak_el |-> NO_PEAK_EL]

\* the loop body with the peak moved on every sample that equals it
scan_step_last_peak(st, t, el_deg, min_el_deg) ==
    IF el_deg >= min_el_deg
    THEN IF ~st.in_pass
         THEN [st EXCEPT !.in_pass = TRUE, !.pass_start = t, !.pass_peak = t,
                         !.pass_peak_el = el_deg]
         ELSE IF el_deg >= st.pass_peak_el
              THEN [st EXCEPT !.pass_peak_el = el_deg, !.pass_peak = t]
              ELSE st
    ELSE [passes |->
             IF st.in_pass /\ st.pass_start # None /\ st.pass_peak # None
             THEN Append(st.passes, PassInterval(st.pass_start, st.pass_peak,
                                                 t, st.pass_peak_el))
             ELSE st.passes,
          in_pass |-> FALSE, pass_start |-> None, pass_peak |-> None,
          pass_peak_el |-> NO_PEAK_EL]

\* the loop body, for the sample el_deg taken at time t
scan_step(st, t, el_deg, min_el_deg) ==
    IF el_deg >= min_el_deg
    THEN IF ~st.in_pass
         THEN [st EXCEPT !.in_pass = TRUE, !.pass_start = t, !.pass_peak = t,
                         !.pass_peak_el = el_deg]
         ELSE IF el_deg > st.pass_peak_el
              THEN [st EXCEPT !.pass_peak_el = el_deg, !.pass_peak = t]
              ELSE st
    ELSE [passes |->
             IF st.in_pass /\ st.pass_start # None /\ st.pass_peak # None
             THEN Append(st.passes, PassInterval(st.pass_start, st.pass_peak,
                                                 t, st.pass_peak_el))
             ELSE st.passes,
          in_pass |-> FALSE, pass_start |-> None, pass_peak |-> None,
          pass_peak_el |-> NO_PEAK_EL]

\* while t <= end_dt: ...; t += step
RECURSIVE scan_from(_, _, _, _, _, _, _)
scan_from(st, t, elev, start_dt, end_dt, dt_sec, min_el_deg) ==
    IF t > end_dt THEN st
    ELSE scan_from(scan_step(st, t, elevation_at(elev, start_dt, dt_sec, t),
                             min_el_deg),
                   t + dt_sec, elev, start_dt, end_dt, dt_sec, min_el_deg)

\* the edge case with the open pass ended where it started
close_open_pass_at_start(st, end_dt) ==
    IF st.in_pass /\ st.pass_start # None /\ st.pass_peak # None
    THEN Append(st.passes, PassInterval(st.pass_start, st.pass_peak,
                                        st.pass_start, st.pass_peak_el))
    ELSE st.passes

\* edge case: still in pass at the end of the window
close_open_pass(st, end_dt) ==
    IF st.in_pass /\ st.pass_start # None /\ st.pass_peak # None
    THEN Append(st.passes, PassInterval(st.pass_start, st.pass_peak,
                                        end_dt, st.pass_peak_el))
    ELSE st.passes

compute_passes_for_sat(elev, start_dt, end_dt, dt_sec, min_el_deg) ==
    close_open_pass(scan_from(ScanState0, start_dt, elev, start_dt, end_dt,
                              dt_sec, min_el_deg),
                    end_dt)

\* one call of _compute_passes_for_sat
Scan ==
    /\ ~scan.done
    /\ scan' = [scan EXCEPT
                  !.done = TRUE,
                  !.passes = compute_passes_for_sat(scan.elev, scan.start_dt,
                                                    scan.end_dt, scan.dt_sec,
                                                    scan.min_el_deg)]
    /\ UNCHANGED <<tracker_vars, held, wizard, call, calc>>

\* a call about to be made, with its arguments
InitScan ==
    /\ clock = StartTime
    /\ has_tle = FALSE
    /\ smoothed = [az |-> None, el |-> None]
    /\ last_cmd = [az |-> None, el |-> None]
    /\ last_sent_time = 0
    /\ ser = None
    /\ last_open_port = None
    /\ cmd_echo = Echo("", None, None, EmptyStr, EmptyStr)
    /\ loop = "closed"
    /\ raw = [az |-> None, el |-> None]
    /\ slew = NoSlew
    /\ wire = <<>>
    /\ io = NoIo
    /\ last_move_time = None
    /\ moves = 0
    /\ held = {}
    /\ wizard = NoWizard
    /\ call = NoCall
    /\ calc = NoCalc
    /\ \E elev \in Profiles, end_dt \in ScanEnds, dt_sec \in ScanSteps,
          min_el_deg \in MinEls :
          scan = [done |-> FALSE, elev |-> elev, start_dt |-> ScanStart,
                  end_dt |-> end_dt, dt_sec |-> dt_sec,
                  min_el_deg |-> min_el_deg, passes |-> <<>>]

NextScan == Scan

SpecScan == InitScan /\ [][NextScan]_vars

(***************************************************************************)
(* Properties of the visibility scanner.                                   *)
(***************************************************************************)
\* the samples of the latest scan: numbers, times and elevations
SampleIdx == 0..((scan.end_dt - scan.start_dt) \div scan.dt_sec)
SampleTime(k) == scan.start_dt + k * scan.dt_sec
Above(k) == scan.elev[k] >= scan.min_el_deg
LastIdx == (scan.end_dt - scan.start_dt) \div scan.dt_sec
\* maximal runs i..j of consecutive samples at or above the threshold
Runs ==
    {r \in SampleIdx \X SampleIdx :
        /\ r[1] <= r[2]
        /\ \A k \in r[1]..r[2] : Above(k)
        /\ r[1] = 0 \/ ~Above(r[1] - 1)
        /\ r[2] = LastIdx \/ ~Above(r[2] + 1)}
RunMax(r) == CHOOSE e \in {scan.elev[k] : k \in r[1]..r[2]} :
                 \A k \in r[1]..r[2] : scan.elev[k] <= e
FirstMax(r) == CHOOSE k \in r[1]..r[2] :
                   /\ scan.elev[k] = RunMax(r)
                   /\ \A j \in r[1]..(k - 1) : scan.elev[j] < RunMax(r)

\* C18 (pass invariants): every PassInterval a scan returns has
\* start <= peak <= end and max_el_deg >= the threshold.
C18_PassInvariants ==
    scan.done
    => \A i \in 1..Len(scan.passes) :
          /\ scan.passes[i].start <= scan.passes[i].peak
          /\ scan.passes[i].peak <= scan.passes[i].end
          /\ scan.passes[i].max_el_deg >= scan.min_el_deg

\* a pass whose peak lies strictly inside it, and one still in progress at
\* the end of the window whose peak is its last sample
C18_Witness ==
    /\ scan.done
    /\ Len(scan.passes) = 2
    /\ scan.passes[1].start < scan.passes[1].peak
    /\ scan.passes[1].peak < scan.passes[1].end
    /\ scan.passes[2].end = scan.end_dt
    /\ scan.passes[2].start < scan.passes[2].peak

\* C19 (one pass per run): the scan returns as many PassIntervals as there
\* are maximal runs of samples at or above the threshold, in increasing
\* order of start; each is the pass of a run: its start is the time of the
\* run's first sample, max_el_deg the largest elevation sampled in the run,
\* peak the time of the first sample with that elevation, and end the
\* window end if the run reaches the last sample.
C19_OnePassPerRun ==
    scan.done
    => /\ Len(scan.passes) = Cardinality(Runs)
       /\ \A a, b \in 1..Len(scan.passes) :
             a < b => scan.passes[a].start < scan.passes[b].start
       /\ \A a \in 1..Len(scan.passes) :
             \E r \in Runs :
                /\ scan.passes[a].start = SampleTime(r[1])
                /\ scan.passes[a].max_el_deg = RunMax(r)
                /\ scan.passes[a].peak = SampleTime(FirstMax(r))
                /\ r[2] = LastIdx => scan.passes[a].end = scan.end_dt

\* two passes; the first attains its maximum on two samples and the second
\* is still in progress when the window ends between two samples
C19_Witness ==
    /\ scan.done
    /\ Len(scan.passes) = 2
    /\ scan.passes[1].start = scan.start_dt
    /\ scan.passes[1].peak = scan.start_dt
    /\ scan.elev[1] = scan.passes[1].max_el_deg
    /\ scan.passes[2].end = scan.end_dt
    /\ scan.end_dt > SampleTime(LastIdx)

\* C20 as claimed: at every sampled instant from the start to the end of a
\* returned PassInterval the elevation is at or above the threshold.
C20_AboveThroughout ==
    scan.done
    => \A i \in 1..Len(scan.passes) :
          \A k \in SampleIdx :
             (scan.passes[i].start <= SampleTime(k)
                 /\ SampleTime(k) <= scan.passes[i].end)
             => Above(k)

(***************************************************************************)
(* pass_visibility.py: compute_pass_visibility_for_file, for one satellite *)
(* of the file.  The window runs from now - look_back to now + window      *)
(* (seconds here, minutes in the source).                                  *)
(***************************************************************************)
VisNow == 140
\* no look-back, or one of 40 s; the longest window has MaxSamples samples
LookBacks == {0, 40}
Windows == {20, 40}

\* future_passes with the test made on the end of the pass
future_passes_by_end(all_passes, now) ==
    SelectSeq(all_passes, LAMBDA p : p.end >= now)

\* future_passes = [p for p in all_passes if p.peak >= now]
future_passes(all_passes, now) ==
    SelectSeq(all_passes, LAMBDA p : p.peak >= now)

\* the body of the loop over tle_blocks: all_passes and the summary's passes
pass_summary(elev, now, look_back, window, dt_sec, min_el_deg) ==
    LET start_dt == now - look_back
        end_dt == now + window
        all_passes == compute_passes_for_sat(elev, start_dt, end_dt, dt_sec,
                                             min_el_deg)
    IN  [all_passes |-> all_passes, passes |-> future_passes(all_passes, now)]

\* one call of compute_pass_visibility_for_file
Visibility ==
    /\ ~scan.done
    /\ \E r \in {pass_summary(scan.elev, scan.now, scan.look_back, scan.window,
                              scan.dt_sec, scan.min_el_deg)} :
          scan' = [scan EXCEPT !.done = TRUE, !.all_passes = r.all_passes,
                               !.passes = r.passes]
    /\ UNCHANGED <<tracker_vars, held, wizard, call, calc>>

InitVisibility ==
    /\ clock = StartTime
    /\ has_tle = FALSE
    /\ smoothed = [az |-> None, el |-> None]
    /\ last_cmd = [az |-> None, el |-> None]
    /\ last_sent_time = 0
    /\ ser = None
    /\ last_open_port = None
    /\ cmd_echo = Echo("", None, None, EmptyStr, EmptyStr)
    /\ loop = "closed"
    /\ raw = [az |-> None, el |-> None]
    /\ slew = NoSlew
    /\ wire = <<>>
    /\ io = NoIo
    /\ last_move_time = None
    /\ moves = 0
    /\ held = {}
    /\ wizard = NoWizard
    /\ call = NoCall
    /\ calc = NoCalc
    /\ \E elev \in Profiles, look_back \in LookBacks, window \in Windows,
          dt_sec \in ScanSteps, min_el_deg \in MinEls :
          scan = [done |-> FALSE, elev |-> elev, now |-> VisNow,
                  look_back |-> look_back, window |-> window,
                  dt_sec |-> dt_sec, min_el_deg |-> min_el_deg,
                  all_passes |-> <<>>, passes |-> <<>>]

NextVisibility == Visibility

SpecVisibility == InitVisibility /\ [][NextVisibility]_vars

\* C21 (only upcoming peaks): every pass reported by a call has its peak at
\* or after the call's now, and the reported passes are, in order, exactly
\* the scanned passes whose peak is not before now.
C21_PeakNotBeforeNow ==
    scan.done
    => /\ \A i \in 1..Len(scan.passes) : scan.passes[i].peak >= scan.now
       /\ \A i \in 1..Len(scan.all_passes) :
             scan.all_passes[i].peak < scan.now
             => \A j \in 1..Len(scan.passes) :
                   scan.passes[j] # scan.all_passes[i]
       /\ \A j \in 1..Len(scan.passes) :
             \E i \in 1..Len(scan.all_passes) :
                scan.passes[j] = scan.all_passes[i]

\* a pass that peaked in the look-back part and ends after now was scanned
\* and is not reported, while a later pass is
C21_Witness ==
    /\ scan.done
    /\ Len(scan.all_passes) = 2
    /\ scan.all_passes[1].peak < scan.now
    /\ scan.all_passes[1].end > scan.now
    /\ Len(scan.passes) = 1
    /\ scan.passes[1] = scan.all_passes[2]

(***************************************************************************)
(* Functions of the element pipeline and of gs232.commands, each checked   *)
(* as one call: calc holds the arguments and, once done, the result.       *)
(***************************************************************************)
\* nothing of the tracker, the sessions, the manager or the scanner is used
TrackerIdle ==
    /\ clock = StartTime
    /\ has_tle = FALSE
    /\ smoothed = [az |-> None, el |-> None]
    /\ last_cmd = [az |-> None, el |-> None]
    /\ last_sent_time = 0
    /\ ser = None
    /\ last_open_port = None
    /\ cmd_echo = Echo("", None, None, EmptyStr, EmptyStr)
    /\ loop = "closed"
    /\ raw = [az |-> None, el |-> None]
    /\ slew = NoSlew
    /\ wire = <<>>
    /\ io = NoIo
    /\ last_move_time = None
    /\ moves = 0

Idle ==
    /\ TrackerIdle
    /\ held = {}
    /\ wizard = NoWizard
    /\ call = NoCall
    /\ scan = NoScan

rest_vars == <<tracker_vars, held, wizard, call, scan>>

(***************************************************************************)
(* keplerian_parser.py: ParseTwoLineElementFile.  The page is a sequence   *)
(* of lines, a line the sequence of its whitespace-separated tokens        *)
(* (line.split()), a token a sequence of characters.  A float is the pair  *)
(* of its digits read as an integer (n) and the number of digits after the *)
(* point (d).                                                              *)
(***************************************************************************)
MaxRecords == 3            \* records (blocks of lines) in a page

IsDigit(ch) == \E i \in 1..10 : DigitChar[i] = ch
DigitVal(ch) == (CHOOSE i \in 1..10 : DigitChar[i] = ch) - 1

RECURSIVE DigitsValue(_)
DigitsValue(s) ==
    IF s = <<>> THEN 0
    ELSE 10 * DigitsValue(SubSeq(s, 1, Len(s) - 1)) + DigitVal(s[Len(s)])

\* float(s) for s made of digits and points: ok is FALSE for ValueError
Float(s) ==
    LET points == {i \in 1..Len(s) : s[i] = "."}
        digits == SelectSeq(s, IsDigit)
    IN  IF /\ \A i \in 1..Len(s) : IsDigit(s[i]) \/ s[i] = "."
           /\ Cardinality(points) <= 1
           /\ digits # <<>>
        THEN [ok |-> TRUE, n |-> DigitsValue(digits),
              d |-> IF points = {} THEN 0
                    ELSE Len(s) - (CHOOSE i \in points : TRUE)]
        ELSE [ok |-> FALSE, n |-> 0, d |-> 0]

\* s[a:b] and s[a:] of Python, for 0 <= a <= b
Slice(s, a, b) == SubSeq(s, a + 1, Min2(b, Len(s)))
SliceFrom(s, a) == SubSeq(s, a + 1, Len(s))

ZeroFloat == [n |-> 0, d |-> 0]
\* np.zeros(9, dtype=float)
Zeros9 == [k \in 0..8 |-> ZeroFloat]
UNKNOWN == <<"U", "N", "K", "N", "O", "W", "N">>
FloatOf(s) == [n |-> Float(s).n, d |-> Float(s).d]

\* results_dict[sat_name] = results
DictSet(dict, key, value) ==
    [k \in (DOMAIN dict) \cup {key} |-> IF k = key THEN value ELSE dict[k]]
EmptyDict == [k \in {} |-> Zeros9]

\* the branch counter == 1: exc is "none", "IndexError" or "ValueError"
parse_line1(split_line, results) ==
    IF Len(split_line) < 5 THEN [exc |-> "IndexError", results |-> results]
    ELSE LET epoch_info == split_line[4]
             epoch_year == Slice(epoch_info, 0, 2)
             epoch_remainder == SliceFrom(epoch_info, 2)
             ftdmm == split_line[5]
         IN  IF Float(epoch_year).ok /\ Float(epoch_remainder).ok
                /\ Float(ftdmm).ok
             THEN [exc |-> "none",
                   results |-> [results EXCEPT ![0] = FloatOf(epoch_year),
                                               ![1] = FloatOf(epoch_remainder),
                                               ![8] = FloatOf(ftdmm)]]
             ELSE [exc |-> "ValueError", results |-> results]

\* the branch counter == 2, up to the assignment of results[2..7]
parse_line2(split_line, results) ==
    IF Len(split_line) < 8 THEN [exc |-> "IndexError", results |-> results]
    ELSE LET ecc0 == split_line[5]
             ecc_str == IF ecc0 # <<>> /\ ecc0[1] = "." THEN ecc0
                        ELSE <<".">> \o ecc0
             fields == <<split_line[3], split_line[4], ecc_str, split_line[6],
                         split_line[7], split_line[8]>>
         IN  IF \A i \in 1..6 : Float(fields[i]).ok
             THEN [exc |-> "none",
                   results |-> [k \in 0..8 |->
                                   IF k \in 2..7 THEN FloatOf(fields[k - 1])
                                   ELSE results[k]]]
             ELSE [exc |-> "ValueError", results |-> results]

\* for line in lines: ...; counter = np.mod(counter + 1, 3)
RECURSIVE parse_from(_, _, _, _, _, _)
parse_from(lines, i, counter, sat_name, results, results_dict) ==
    IF i > Len(lines) THEN [exc |-> "none", results_dict |-> results_dict]
    ELSE IF counter = 0
    THEN parse_from(lines, i + 1, 1,
                    IF Len(lines[i]) > 0 THEN lines[i][1] ELSE UNKNOWN,
                    results, results_dict)
    ELSE IF counter = 1
    THEN LET r == parse_line1(lines[i], results)
         IN  IF r.exc # "none"
             THEN [exc |-> r.exc, results_dict |-> EmptyDict]
             ELSE parse_from(lines, i + 1, 2, sat_name, r.results, results_dict)
    ELSE LET r == parse_line2(lines[i], results)
         IN  IF r.exc # "none"
             THEN [exc |-> r.exc, results_dict |-> EmptyDict]
             ELSE parse_from(lines, i + 1, 0, sat_name, Zeros9,
                             DictSet(results_dict, sat_name, r.results))

\* ParseTwoLineElementFile on the lines of the page; an exception leaves
\* the function and no dictionary is returned
ParseTwoLineElementFile(lines) ==
    parse_from(lines, 1, 0, UNKNOWN, Zeros9, EmptyDict)

\* --- the pages drawn: name lines, element lines, records ---
NameIssZarya == << <<"I", "S", "S">>, <<"(", "Z", "A", "R", "Y", "A", ")">> >>
NameIssDeb == << <<"I", "S", "S">>, <<"D", "E", "B">> >>
NameAo07 == << <<"A", "O", "-", "0", "7">> >>
NameLines == {NameIssZarya, NameIssDeb, NameAo07}
\* 1 25544U 98067A 23140.5 .2 0 0 9995
Line1Good ==
    << <<"1">>, <<"2", "5", "5", "4", "4", "U">>, <<"9", "8", "0", "6", "7", "A">>,
       <<"2", "3", "1", "4", "0", ".", "5">>, <<".", "2">>, <<"0">>, <<"0">>,
       <<"9", "9", "9", "5">> >>
\* 2 25544 51.6 294 0005576 54 59 15.5
Line2GoodA ==
    << <<"2">>, <<"2", "5", "5", "4", "4">>, <<"5", "1", ".", "6">>,
       <<"2", "9", "4">>, <<"0", "0", "0", "5", "5", "7", "6">>, <<"5", "4">>,
       <<"5", "9">>, <<"1", "5", ".", "5">> >>
\* 2 07530 98 294 .0012 54 59 12.5
Line2GoodB ==
    << <<"2">>, <<"0", "7", "5", "3", "0">>, <<"9", "8">>, <<"2", "9", "4">>,
       <<".", "0", "0", "1", "2">>, <<"5", "4">>, <<"5", "9">>,
       <<"1", "2", ".", "5">> >>
\* a line 2 whose inclination field is not a number
Line2Bad ==
    << <<"2">>, <<"2", "5", "5", "4", "4">>, <<"N", "a", "N">>,
       <<"2", "9", "4">>, <<"0", "0", "0", "5", "5", "7", "6">>, <<"5", "4">>,
       <<"5", "9">>, <<"1", "5", ".", "5">> >>
\* a line 1 cut short
Line1Short == << <<"1">>, <<"2", "5", "5", "4", "4", "U">> >>
BlankLine == <<>>

\* well-formed records, and records with a blank, short, non-numeric or
\* missing element line
GoodRecords ==
    {[good |-> TRUE, lines |-> <<n, Line1Good, l2>>] :
        n \in NameLines, l2 \in {Line2GoodA, Line2GoodB}}
BadRecords ==
    {[good |-> FALSE, lines |-> ls] :
        ls \in {<<NameAo07, BlankLine, Line2GoodA>>,
                <<NameAo07, Line1Short, Line2GoodA>>,
                <<NameAo07, Line1Good, Line2Bad>>,
                <<NameAo07, Line1Good>>}}
Records == GoodRecords \cup BadRecords
Pages == UNION {[1..n -> Records] : n \in 1..MaxRecords}

RECURSIVE PageLines(_)
PageLines(page) ==
    IF page = <<>> THEN <<>> ELSE Head(page).lines \o PageLines(Tail(page))

\* one call of ParseTwoLineElementFile
Parse ==
    /\ calc.fn = "ParseTwoLineElementFile"
    /\ ~calc.done
    /\ \E r \in {ParseTwoLineElementFile(PageLines(calc.page))} :
          calc' = [calc EXCEPT !.done = TRUE, !.exc = r.exc,
                               !.results_dict = r.results_dict]
    /\ UNCHANGED rest_vars

InitParse ==
    /\ Idle
    /\ \E page \in Pages :
          calc = [fn |-> "ParseTwoLineElementFile", done |-> FALSE,
                  page |-> page, exc |-> "none", results_dict |-> EmptyDict]

NextParse == Parse

SpecParse == InitParse /\ [][NextParse]_vars

\* the key the parser files a name line under
KeyOf(name_line) == name_line[1]

\* C22 as claimed: the parser does not abort on a malformed record, and the
\* result has an entry for every well-formed record of the page.
C22_SkipMalformed ==
    (calc.done /\ calc.fn = "ParseTwoLineElementFile")
    => /\ calc.exc = "none"
       /\ \A i \in 1..Len(calc.page) :
             calc.page[i].good
             => KeyOf(calc.page[i].lines[1]) \in DOMAIN calc.results_dict

\* C23 as claimed: on a page of well-formed records the result has one
\* entry for each different name line.
C23_KeyedByNameLine ==
    (/\ calc.done /\ calc.fn = "ParseTwoLineElementFile"
     /\ \A i \in 1..Len(calc.page) : calc.page[i].good)
    => Cardinality(DOMAIN calc.results_dict)
          = Cardinality({calc.page[i].lines[1] : i \in 1..Len(calc.page)})

(***************************************************************************)
(* TimeRoutines.GenerateTimeVec and tle_to_kep.ConvertTLEToKepElem.        *)
(* A day-of-year is counted in hours (24 to the day, day 1.0 = 1 January   *)
(* 00:00); the samples of a time vector are kept times (num_time_pts - 1), *)
(* so that the even spacing of linspace is exact.                          *)
(***************************************************************************)
\* samples of one time vector
num_time_pts == 3

HoursPerDay == 24
SecPerHour == 3600

IsLeap(year) ==
    (year % 4 = 0 /\ year % 100 # 0) \/ year % 400 = 0

DaysInMonth(year, month) ==
    IF month = 2 THEN (IF IsLeap(year) THEN 29 ELSE 28)
    ELSE IF month \in {4, 6, 9, 11} THEN 30 ELSE 31

RECURSIVE DaysBefore(_, _)
\* days of `year` before the first of `month`
DaysBefore(year, month) ==
    IF month = 1 THEN 0
    ELSE DaysBefore(year, month - 1) + DaysInMonth(year, month - 1)

\* a date string 'YYYY MM DD HH MM SS' on a whole hour
Date(year, month, day, hour) ==
    [year |-> year, month |-> month, day |-> day, hour |-> hour]

\* the 1-based day of the year with its fraction, in hours
Date_to_nth_day(date_str) ==
    LET delta_days == DaysBefore(date_str.year, date_str.month) + date_str.day - 1
        delta_seconds == date_str.hour * SecPerHour
    IN  (delta_days + 1) * HoursPerDay + delta_seconds \div SecPerHour

\* num evenly spaced samples from a to b, both ends included, each kept
\* times (num - 1)
linspace(a, b, num) ==
    [i \in 1..num |-> a * (num - 1) + (i - 1) * (b - a)]

\* the time vector of a window for one element epoch; exit is sys.exit()
GenerateTimeVec(utc_start_time, utc_end_time, tle_epoch_year, tle_epoch_days) ==
    LET year4 == IF tle_epoch_year < 57 THEN tle_epoch_year + 2000
                 ELSE tle_epoch_year + 1900
        swapped == utc_start_time.year > utc_end_time.year
        start_year0 == IF swapped THEN year4 ELSE utc_start_time.year
        end_year0 == IF swapped THEN year4 ELSE utc_end_time.year
        future_start_year == IF start_year0 < year4 THEN year4 ELSE start_year0
        future_end_year == IF end_year0 < year4 THEN year4 ELSE end_year0
        future_start_days == Date_to_nth_day(utc_start_time)
        future_end_days == Date_to_nth_day(utc_end_time)
    IN  IF future_start_days > future_end_days
        THEN [exit |-> TRUE, time_vec |-> <<>>, tle_epoch_year |-> year4,
              future_start_year |-> future_start_year,
              future_end_year |-> future_end_year]
        ELSE [exit |-> FALSE,
              time_vec |-> linspace(IF future_start_days < tle_epoch_days
                                    THEN tle_epoch_days ELSE future_start_days,
                                    future_end_days, num_time_pts),
              tle_epoch_year |-> year4,
              future_start_year |-> future_start_year,
              future_end_year |-> future_end_year]

\* elapsed seconds since the epoch of every sample, times (num_time_pts - 1)
delta_time_vec(time_vec, epoch_days) ==
    [i \in DOMAIN time_vec |->
        (time_vec[i] - epoch_days * (num_time_pts - 1)) * SecPerHour]

\* scipy.optimize.newton over the samples of one satellite: no_conv is the
\* sample whose iteration does not converge (0: all converge); newton
\* raises RuntimeError for it
newton_all(n_samples, no_conv) ==
    IF no_conv \in 1..n_samples THEN "RuntimeError" ELSE "none"

EmptyResults == [name \in {} |-> 0]

RECURSIVE convert_from(_, _, _, _, _, _, _)
\* the loop over tle_dict from its s-th satellite on
convert_from(tle_dict, s, utc_start_time, utc_end_time, no_conv, results, time_vec) ==
    IF s > Len(tle_dict)
    THEN [outcome |-> "return", results |-> results, time_vec |-> time_vec]
    ELSE LET arr == tle_dict[s]
             g == GenerateTimeVec(utc_start_time, utc_end_time,
                                  arr.epoch_year, arr.epoch_days)
         IN  IF g.exit
             THEN [outcome |-> "SystemExit", results |-> EmptyResults,
                   time_vec |-> <<>>]
             ELSE IF newton_all(Len(g.time_vec), no_conv[s]) # "none"
             THEN [outcome |-> "RuntimeError", results |-> EmptyResults,
                   time_vec |-> <<>>]
             ELSE convert_from(tle_dict, s + 1, utc_start_time, utc_end_time,
                     no_conv,
                     (arr.sat_name :>
                        [delta_time_vec |-> delta_time_vec(g.time_vec, arr.epoch_days),
                         n_rows |-> Len(g.time_vec),
                         epoch_year |-> g.tle_epoch_year,
                         epoch_days |-> arr.epoch_days]) @@ results,
                     g.time_vec)

ConvertTLEToKepElem(tle_dict, utc_start_time, utc_end_time, no_conv) ==
    convert_from(tle_dict, 1, utc_start_time, utc_end_time, no_conv,
                 EmptyResults, <<>>)

\* the requested instants: two days of May 2023, the turn of the year, and
\* a day after the leap day of 2024
Dates ==
    {Date(2023, 5, 18, 6), Date(2023, 5, 20, 0), Date(2023, 5, 22, 18),
     Date(2023, 12, 31, 23), Date(2024, 1, 1, 1), Date(2024, 3, 1, 0)}

\* parsed element sets: name, two-digit epoch year, epoch day of the year
Elements ==
    <<[sat_name |-> "ISS (ZARYA)", epoch_year |-> 23,
       epoch_days |-> 139 * HoursPerDay],
      [sat_name |-> "AO-07", epoch_year |-> 23,
       epoch_days |-> 142 * HoursPerDay + 12],
      [sat_name |-> "NOAA 19", epoch_year |-> 23,
       epoch_days |-> 364 * HoursPerDay]>>

\* the dictionaries of one or two of them, in order of insertion
TleDicts ==
    {<<Elements[i]>> : i \in 1..3}
    \cup {<<Elements[i], Elements[j]>> : i \in 1..2, j \in 2..3}

\* one call of ConvertTLEToKepElem
Convert ==
    /\ calc.fn = "ConvertTLEToKepElem"
    /\ ~calc.done
    /\ \E r \in {ConvertTLEToKepElem(calc.tle_dict, calc.utc_start_time,
                                     calc.utc_end_time, calc.no_conv)} :
          calc' = [calc EXCEPT !.done = TRUE, !.outcome = r.outcome,
                               !.results = r.results, !.time_vec = r.time_vec]
    /\ UNCHANGED rest_vars

InitKep ==
    /\ Idle
    /\ \E tle_dict \in TleDicts, utc_start_time \in Dates, utc_end_time \in Dates :
       \E no_conv \in [1..Len(tle_dict) -> 0..num_time_pts] :
          /\ \A s, t \in 1..Len(tle_dict) :
                s < t => tle_dict[s].sat_name # tle_dict[t].sat_name
          /\ calc = [fn |-> "ConvertTLEToKepElem", done |-> FALSE,
                     tle_dict |-> tle_dict,
                     utc_start_time |-> utc_start_time,
                     utc_end_time |-> utc_end_time,
                     no_conv |-> no_conv, outcome |-> "none",
                     results |-> EmptyResults, time_vec |-> <<>>]

NextKep == Convert

SpecKep == InitKep /\ [][NextKep]_vars

\* C24 as claimed: every elapsed time of every returned satellite is
\* non-negative, whatever the window and the epoch.
C24_NoSampleBeforeEpoch ==
    (calc.done /\ calc.fn = "ConvertTLEToKepElem" /\ calc.outcome = "return")
    => \A name \in DOMAIN calc.results :
          \A i \in DOMAIN calc.results[name].delta_time_vec :
             calc.results[name].delta_time_vec[i] >= 0

\* C25 as claimed: whatever the order of start and end and whichever years
\* they fall in, the call never exits the interpreter.
C25_NeverExits ==
    (calc.done /\ calc.fn = "ConvertTLEToKepElem")
    => calc.outcome # "SystemExit"

\* C26 as claimed: when the window is accepted, a sample whose iteration
\* does not converge leaves the call returning, with a row for every
\* satellite whose samples all converge.
C26_ConvergenceIsolated ==
    (calc.done /\ calc.fn = "ConvertTLEToKepElem" /\ calc.outcome # "SystemExit")
    => /\ calc.outcome = "return"
       /\ \A s \in 1..Len(calc.tle_dict) :
             calc.no_conv[s] = 0
             => calc.tle_dict[s].sat_name \in DOMAIN calc.results

(***************************************************************************)
(* gs232.commands.parse_c2, and format_move followed by parse_c2.          *)
(* A reply is a sequence of characters; CR, LF and TAB are one character   *)
(* each.  A parsed number is [ok, neg, n, d]: the digits n as an integer   *)
(* with d of them after the point, ok FALSE where float() raises           *)
(* ValueError.                                                             *)
(***************************************************************************)
Whitespace == {" ", "CR", "LF", "TAB"}

RECURSIVE lstrip(_)
lstrip(s) ==
    IF s # <<>> /\ s[1] \in Whitespace THEN lstrip(Tail(s)) ELSE s

RECURSIVE rstrip_ws(_)
rstrip_ws(s) ==
    IF s # <<>> /\ s[Len(s)] \in Whitespace
    THEN rstrip_ws(SubSeq(s, 1, Len(s) - 1))
    ELSE s

\* str.strip()
strip(s) == rstrip_ws(lstrip(s))

RECURSIVE replace_plus0(_)
\* reply.replace('+0', '+'): left to right, occurrences do not overlap
replace_plus0(s) ==
    IF Len(s) < 2 THEN s
    ELSE IF s[1] = "+" /\ s[2] = "0"
         THEN <<"+">> \o replace_plus0(SubSeq(s, 3, Len(s)))
         ELSE <<s[1]>> \o replace_plus0(Tail(s))

RECURSIVE split_plus(_)
\* s.split('+'): the pieces between the signs, empty ones included
split_plus(s) ==
    IF \A i \in 1..Len(s) : s[i] # "+" THEN <<s>>
    ELSE LET k == CHOOSE i \in 1..Len(s) :
                     s[i] = "+" /\ \A j \in 1..(i - 1) : s[j] # "+"
         IN  <<SubSeq(s, 1, k - 1)>> \o split_plus(SubSeq(s, k + 1, Len(s)))

\* float(p) of a piece: blanks around it and one leading sign are allowed,
\* then digits with at most one point (pieces carry no exponent, no
\* underscore and no 'inf' or 'nan')
float_str(p) ==
    LET t == strip(p)
        signed == t # <<>> /\ t[1] \in {"+", "-"}
        f == Float(IF signed THEN Tail(t) ELSE t)
    IN  [ok |-> f.ok, neg |-> signed /\ t[1] = "-", n |-> f.n, d |-> f.d]

NoFloat == [ok |-> FALSE, neg |-> FALSE, n |-> 0, d |-> 0]

\* return None
NoPosition == [pos |-> FALSE, az |-> NoFloat, el |-> NoFloat]

parse_c2(reply) ==
    IF reply = <<>> \/ Len(reply) < 8 THEN NoPosition
    ELSE LET parts == split_plus(replace_plus0(strip(reply)))
             kept == SelectSeq(parts, LAMBDA p : p # <<>>)
             nums == [i \in DOMAIN kept |-> float_str(kept[i])]
         IN  IF \E i \in DOMAIN nums : ~nums[i].ok
             THEN NoPosition              \* ValueError, caught
             ELSE IF Len(nums) = 2
                  THEN [pos |-> TRUE, az |-> nums[1], el |-> nums[2]]
                  ELSE NoPosition

RECURSIVE Pow10(_)
Pow10(d) == IF d = 0 THEN 1 ELSE 10 * Pow10(d - 1)

\* the parsed number is the integer k
FloatIs(f, k) ==
    /\ f.ok
    /\ f.n = k * Pow10(f.d)
    /\ (f.neg => k = 0)

\* the two supported replies for a position
Delimited(az, el) ==
    <<"+", "0">> \o Fmt03d(az) \o <<"+", "0">> \o Fmt03d(el)

Labeled(az, el) ==
    <<"A", "Z", ":", " ">> \o DecDigits(az)
       \o <<" ", "E", "L", ":", " ">> \o DecDigits(el)

Positions == {<<180, 90>>, <<0, 0>>, <<5, 45>>, <<450, 180>>}

\* a reply as it may come off the line: whole, with its line end, cut
\* short at any length, or with one character garbled
Variants(base) ==
    {base, base \o <<"CR", "LF">>}
    \cup {SubSeq(base, 1, k) : k \in 0..(Len(base) - 1)}
    \cup {[base EXCEPT ![k] = "x"] : k \in 1..Len(base)}

Replies ==
    UNION {Variants(Delimited(p[1], p[2])) \cup Variants(Labeled(p[1], p[2])) :
           p \in Positions}

\* the values format_move is given, in thousandths of a degree: every
\* whole azimuth of 0..450 and every whole elevation of 0..180, with
\* fractions on both sides of a half
Fractions == {0, 200, 500, 700}
AzSamples == {0, 180200, 450 * DEG}
ElSamples == {0, 45700, 180 * DEG}

MoveInputs ==
    {x \in ({a * DEG + f : a \in 0..450, f \in Fractions} \X ElSamples)
          \cup (AzSamples \X {e * DEG + f : e \in 0..180, f \in Fractions}) :
       x[1] <= 450 * DEG /\ x[2] <= 180 * DEG}

\* the position reply of the controller that carries the digits of a move
\* command 'Waaa eee'
ReplyFor(cmd) ==
    <<"+", "0">> \o SubSeq(cmd, 2, 4) \o <<"+", "0">> \o SubSeq(cmd, 6, 8)

\* one call of parse_c2
ParseC2 ==
    /\ calc.fn = "parse_c2"
    /\ ~calc.done
    /\ calc' = [calc EXCEPT !.done = TRUE, !.result = parse_c2(calc.reply)]
    /\ UNCHANGED rest_vars

\* one call of format_move, and parse_c2 of the reply with its digits
FormatParse ==
    /\ calc.fn = "format_move"
    /\ ~calc.done
    /\ \E cmd \in {format_move(calc.az_deg, calc.el_deg)} :
          calc' = [calc EXCEPT !.done = TRUE, !.cmd = cmd,
                               !.reply = ReplyFor(cmd),
                               !.result = parse_c2(ReplyFor(cmd))]
    /\ UNCHANGED rest_vars

InitCommands ==
    /\ Idle
    /\ \/ \E reply \in Replies :
             calc = [fn |-> "parse_c2", done |-> FALSE, az_deg |-> 0,
                     el_deg |-> 0, cmd |-> EmptyStr, reply |-> reply,
                     result |-> NoPosition]
       \/ \E x \in MoveInputs :
             calc = [fn |-> "format_move", done |-> FALSE, az_deg |-> x[1],
                     el_deg |-> x[2], cmd |-> EmptyStr, reply |-> EmptyStr,
                     result |-> NoPosition]

NextCommands == ParseC2 \/ FormatParse

SpecCommands == InitCommands /\ [][NextCommands]_vars

\* C27 as claimed: a reply in the delimited form and a reply in the labeled
\* form both give the position they carry.
C27_BothFormats ==
    (calc.done /\ calc.fn = "parse_c2")
    => \A p \in Positions :
          calc.reply \in {Delimited(p[1], p[2]), Labeled(p[1], p[2])}
          => /\ calc.result.pos
             /\ FloatIs(calc.result.az, p[1])
             /\ FloatIs(calc.result.el, p[2])

AllDigits(s) == s # <<>> /\ \A i \in 1..Len(s) : IsDigit(s[i])

\* '+0aaa+0eee', line end apart
InDelimitedForm(reply) ==
    LET s == strip(reply)
    IN  /\ Len(s) = 10
        /\ SubSeq(s, 1, 2) = <<"+", "0">> /\ AllDigits(SubSeq(s, 3, 5))
        /\ SubSeq(s, 6, 7) = <<"+", "0">> /\ AllDigits(SubSeq(s, 8, 10))

\* 'AZ: a EL: e', line end apart
InLabeledForm(reply) ==
    LET s == strip(reply)
    IN  \E k \in 5..Len(s) :
           /\ Slice(s, 0, 4) = <<"A", "Z", ":", " ">>
           /\ AllDigits(Slice(s, 4, k))
           /\ Slice(s, k, k + 5) = <<" ", "E", "L", ":", " ">>
           /\ AllDigits(SliceFrom(s, Min2(k + 5, Len(s))))

\* C28 as claimed: a reply in neither form gives no position.
C28_UnrecognizedIsNone ==
    (/\ calc.done /\ calc.fn = "parse_c2"
     /\ ~InDelimitedForm(calc.reply) /\ ~InLabeledForm(calc.reply))
    => ~calc.result.pos

\* C29: for an azimuth of 0..450 and an elevation of 0..180 the command is
\* 'W', three digits, a blank, three digits; each number is a nearest
\* integer of its value; and parse_c2 of the reply '+0aaa+0eee' with those
\* digits gives exactly those two integers.
C29_FormatParseRoundTrip ==
    (calc.done /\ calc.fn = "format_move")
    => LET az == DigitsValue(SubSeq(calc.cmd, 2, 4))
           el == DigitsValue(SubSeq(calc.cmd, 6, 8))
       IN  /\ Len(calc.cmd) = 8
           /\ calc.cmd[1] = "W" /\ calc.cmd[5] = " "
           /\ AllDigits(SubSeq(calc.cmd, 2, 4))
           /\ AllDigits(SubSeq(calc.cmd, 6, 8))
           /\ 2 * Abs(calc.az_deg - az * DEG) <= DEG
           /\ 2 * Abs(calc.el_deg - el * DEG) <= DEG
           /\ calc.result.pos
           /\ FloatIs(calc.result.az, az)
           /\ FloatIs(calc.result.el, el)

\* format_move(180.2, 45.7) = 'W180 046', read back as 180, 46
C29_Witness ==
    /\ calc.done /\ calc.fn = "format_move"
    /\ calc.az_deg = 180200 /\ calc.el_deg = 45700
    /\ calc.cmd = <<"W", "1", "8", "0", " ", "0", "4", "6">>
    /\ calc.reply = <<"+", "0", "1", "8", "0", "+", "0", "0", "4", "6">>
    /\ calc.result.pos
    /\ FloatIs(calc.result.az, 180) /\ FloatIs(calc.result.el, 46)

(***************************************************************************)
(* fetch_tle.fetch_group and fetch_and_save_tle.  The network and the      *)
(* file system are inputs: what urlopen / read / decode does, what open    *)
(* and write of the target file do, and whether a cached file is there.    *)
(***************************************************************************)
GROUP_URLS == {"Amateur", "NOAA", "GOES", "Weather", "CUBESAT", "SATNOGS"}

\* group names a caller may pass: the known ones and one that is not
GroupNames == GROUP_URLS \cup {"Galileo"}

\* urlopen(req, timeout) and response.read().decode("utf-8"): the text
\* arrives, or one of these is raised
DownloadOutcomes ==
    {"ok", "URLError", "HTTPError", "TimeoutError", "OSError",
     "IncompleteRead", "UnicodeDecodeError"}

\* open(filename, "w") and f.write(text): both succeed, open raises
\* OSError (the file is untouched), or write raises OSError after open
\* has truncated the file
SaveOutcomes == {"ok", "open_OSError", "write_OSError"}

\* except (URLError, HTTPError, OSError, TimeoutError): the exceptions the
\* handler catches, subclasses included
FetchCaught == {"URLError", "HTTPError", "TimeoutError", "OSError"}

NoFile == "absent"
CachedText == "cached"
FreshText == "fresh"
PartialText == "partial"

\* fetch_and_save_tle: the file afterwards and the exception that leaves
\* the function ("none": it returns)
fetch_and_save_tle(file, download, save) ==
    LET raised == IF download # "ok" THEN download
                  ELSE IF save = "ok" THEN "none" ELSE "OSError"
        after == IF download # "ok" \/ save = "open_OSError" THEN file
                 ELSE IF save = "ok" THEN FreshText ELSE PartialText
    IN  IF raised = "none" THEN [file |-> after, exc |-> "none"]
        ELSE IF raised \in FetchCaught
             THEN IF after # NoFile                \* filename.exists()
                  THEN [file |-> after, exc |-> "none"]
                  ELSE [file |-> after, exc |-> raised]
             ELSE [file |-> after, exc |-> raised]

\* fetch_group: ret is the path of the group's file, "" when it raises
fetch_group(group_name, file, download, save) ==
    IF group_name \notin GROUP_URLS
    THEN [ret |-> "", file |-> file, exc |-> "ValueError"]
    ELSE LET r == fetch_and_save_tle(file, download, save)
         IN  [ret |-> IF r.exc = "none" THEN group_name ELSE "",
              file |-> r.file, exc |-> r.exc]

\* one call of fetch_group
FetchGroup ==
    /\ calc.fn = "fetch_group"
    /\ ~calc.done
    /\ \E r \in {fetch_group(calc.group_name, calc.file, calc.download,
                             calc.save)} :
          calc' = [calc EXCEPT !.done = TRUE, !.ret = r.ret,
                               !.file_after = r.file, !.exc = r.exc]
    /\ UNCHANGED rest_vars

InitFetch ==
    /\ Idle
    /\ \E group_name \in GroupNames, file \in {NoFile, CachedText},
          download \in DownloadOutcomes, save \in SaveOutcomes :
          calc = [fn |-> "fetch_group", done |-> FALSE,
                  group_name |-> group_name, file |-> file,
                  download |-> download, save |-> save,
                  ret |-> "", file_after |-> file, exc |-> "none"]

NextFetch == FetchGroup

SpecFetch == InitFetch /\ [][NextFetch]_vars

\* C31 as claimed: when the download of a known group fails and the cached
\* file exists, fetch_group returns its path without raising and the file
\* is as before; it raises only when the download (or the saving of it)
\* fails and there is no cached file.
C31_FallsBackToCache ==
    (calc.done /\ calc.fn = "fetch_group" /\ calc.group_name \in GROUP_URLS)
    => /\ (calc.download # "ok" /\ calc.file # NoFile)
          => /\ calc.exc = "none"
             /\ calc.ret = calc.group_name
             /\ calc.file_after = calc.file
       /\ calc.exc # "none"
          => /\ calc.download # "ok" \/ calc.save # "ok"
             /\ calc.file = NoFile

(***************************************************************************)
(* Clamping and the direction of the commanded azimuth.                    *)
(***************************************************************************)
\* the azimuth (mdeg) a transmitted move command 'Waaa eee' carries
MoveAz(w) == DigitsValue(SubSeq(MoveOf(w), 2, 4)) * DEG

\* C32 as claimed: the azimuth of every move command sent is congruent
\* modulo 360 deg to the quantized smoothed azimuth.
C32_ClampKeepsDirection ==
    (loop = "running" /\ HasMove(wire))
    => (MoveAz(wire) - quantize(smoothed.az)) % FULL_TURN = 0

(***************************************************************************)
(* Quiescence for a fixed target.                                          *)
(***************************************************************************)
\* the loop has settled on the raw angles of the latest tick: the smoothed
\* values are the target and the gate skips its command, so as long as the
\* raw angles stay as they are no later tick sends anything
Settled ==
    /\ loop = "running" /\ has_tle /\ Tracked(raw)
    /\ smoothed.el = raw.el
    /\ (smoothed.az - raw.az) % FULL_TURN = 0
    /\ in_deadband(AzCmd(smoothed), ElCmd(smoothed), last_cmd)

\* C33 as claimed, in the form a finite run refutes: when the loop has
\* settled on a fixed target, a move command has been sent to the link
\* (the last command sent is the one the gate compares with).
C33_SettledAfterSend ==
    Settled => moves > 0

(***************************************************************************)
(* calibration_wizard.py: the speed sweep of WizardFrame.  The Tk thread   *)
(* runs the button handlers one at a time; the sweep worker is a second    *)
(* thread.  Both use the same SerialManager without a lock, and the flags  *)
(* _sweep_stop, _sweep_paused and _sweep_running are all they share.  A    *)
(* step of a thread is one access to a flag or one command written; the    *)
(* link is up and every write succeeds.  Angles are whole degrees.         *)
(*                                                                         *)
(* wizard.pc is the worker's position, wizard.ui the handler the Tk thread *)
(* is in.  wizard.last is the latest motion command on the link and        *)
(* wizard.by the thread that wrote it.  estop, resumed, seen and shown     *)
(* record the past for the properties: estop since Stop + Restart wrote    *)
(* 'S', resumed since Resume returned, seen the latest azimuth read, shown *)
(* the clockwise travel the azimuths read add up to.                       *)
(***************************************************************************)
\* polls of C2 in one sweep
MaxPolls == 5

TURN == 360

\* azimuths the controller reports; None: no reply or an unreadable one
AzReadings == {0, 90, 180, 270}

\* parse_c2_az_el(reply)[0]
parse_c2_az_el(az) ==
    IF az = None THEN None ELSE Max2(0, Min2(450, az))

\* Smallest forward CW delta in [0, 360)
cw_delta(curr, prev) == (curr - prev) % TURN

\* the clockwise part of the shorter way from prev to curr
ShownCw(curr, prev) ==
    IF cw_delta(curr, prev) <= TURN \div 2 THEN cw_delta(curr, prev) ELSE 0

MotionStart == {"W", "X", "R"}

SweepIdle ==
    [on |-> TRUE, ser |-> 1, last_open_port |-> 1,
     page |-> "sweep", running |-> FALSE, stop |-> FALSE, paused |-> FALSE,
     pc |-> "idle", ui |-> "idle", last |-> "", by |-> "none",
     az0 |-> None, prev_az |-> 0, total_travel |-> 0, polls |-> 0,
     done_pending |-> FALSE, complete |-> FALSE,
     estop |-> FALSE, resumed |-> FALSE, seen |-> None, shown |-> 0]

SweepFrame == UNCHANGED <<tracker_vars, held, call, scan, calc>>

\* ---- Tk thread ----
\* Start: _start_sweep_speed up to the start of the worker thread
StartSweep ==
    /\ wizard.ui = "idle" /\ wizard.page = "sweep"
    /\ ~wizard.running
    /\ wizard' = [wizard EXCEPT !.stop = FALSE, !.paused = FALSE,
                     !.running = TRUE, !.complete = FALSE, !.pc = "c2",
                     !.az0 = None, !.prev_az = 0, !.total_travel = 0,
                     !.polls = 0, !.estop = FALSE, !.resumed = FALSE,
                     !.seen = None, !.shown = 0]
    /\ SweepFrame

\* Stop (Pause): _pause_sweep_speed
PauseSweep ==
    /\ wizard.ui = "idle" /\ wizard.page = "sweep"
    /\ wizard.running /\ ~wizard.paused
    /\ wizard' = [wizard EXCEPT !.paused = TRUE, !.resumed = FALSE]
    /\ SweepFrame

\* Resume: _resume_sweep_speed writes Xn, writes R, then clears the flag
ResumeSpeed ==
    /\ wizard.ui = "idle" /\ wizard.page = "sweep"
    /\ wizard.running /\ wizard.paused
    /\ wizard' = [wizard EXCEPT !.last = "X", !.by = "ui", !.ui = "resume_R"]
    /\ SweepFrame

ResumeRotate ==
    /\ wizard.ui = "resume_R"
    /\ wizard' = [wizard EXCEPT !.last = "R", !.by = "ui", !.ui = "resume_clear"]
    /\ SweepFrame

ResumeClear ==
    /\ wizard.ui = "resume_clear"
    /\ wizard' = [wizard EXCEPT !.paused = FALSE, !.ui = "idle",
                                !.resumed = TRUE]
    /\ SweepFrame

\* Stop + Restart: _stop_and_restart raises stop, clears pause, writes 'S',
\* goes to the splash page
StopRaise ==
    /\ wizard.ui = "idle" /\ wizard.page = "sweep"
    /\ wizard' = [wizard EXCEPT !.stop = IF wizard.running THEN TRUE ELSE @,
                                !.ui = "stop_clear", !.resumed = FALSE]
    /\ SweepFrame

StopClearPause ==
    /\ wizard.ui = "stop_clear"
    /\ wizard' = [wizard EXCEPT !.paused = FALSE, !.ui = "stop_S"]
    /\ SweepFrame

StopWrite ==
    /\ wizard.ui = "stop_S"
    /\ wizard' = [wizard EXCEPT !.last = "S", !.by = "ui", !.estop = TRUE,
                                !.ui = "stop_splash"]
    /\ SweepFrame

StopSplash ==
    /\ wizard.ui = "stop_splash"
    /\ wizard' = [wizard EXCEPT !.page = "splash", !.complete = FALSE,
                                !.ui = "idle"]
    /\ SweepFrame

\* the user walks from the splash page to the sweep page again
GotoSweep ==
    /\ wizard.ui = "idle" /\ wizard.page = "splash"
    /\ wizard' = [wizard EXCEPT !.page = "sweep", !.complete = FALSE,
                                !.estop = FALSE]
    /\ SweepFrame

\* enable_complete, scheduled by _on_sweep_done
EnableComplete ==
    /\ wizard.ui = "idle" /\ wizard.done_pending
    /\ wizard' = [wizard EXCEPT !.done_pending = FALSE,
                     !.complete = IF wizard.page = "sweep" THEN TRUE ELSE @]
    /\ SweepFrame

\* ---- sweep worker ----
\* 0) starting azimuth: c2(), 0.0 if it cannot be read
WorkerC2 ==
    /\ wizard.pc = "c2"
    /\ \E reply \in AzReadings \cup {None} :
       \E az0 \in {parse_c2_az_el(reply)} :
          wizard' = [wizard EXCEPT
                        !.az0 = IF az0 = None THEN 0 ELSE az0,
                        !.seen = IF az0 = None THEN None ELSE az0 % TURN,
                        !.pc = "move"]
    /\ SweepFrame

\* 1) send_move(az0 % 360, 0)
WorkerMove ==
    /\ wizard.pc = "move"
    /\ wizard' = [wizard EXCEPT !.last = "W", !.by = "worker", !.pc = "speed"]
    /\ SweepFrame

\* 2) write_cmd(speed_cmd)
WorkerSpeed ==
    /\ wizard.pc = "speed"
    /\ wizard' = [wizard EXCEPT !.last = "X", !.by = "worker", !.pc = "rotate"]
    /\ SweepFrame

\* 3) write_cmd("R"), then total_travel = 0.0, prev_az = az0 % 360
WorkerRotate ==
    /\ wizard.pc = "rotate"
    /\ wizard' = [wizard EXCEPT !.last = "R", !.by = "worker",
                                !.total_travel = 0,
                                !.prev_az = wizard.az0 % TURN,
                                !.pc = "loop"]
    /\ SweepFrame

\* while not self._sweep_stop.is_set()
WorkerLoop ==
    /\ wizard.pc = "loop"
    /\ wizard' = [wizard EXCEPT !.pc = IF wizard.stop THEN "finally" ELSE "gate"]
    /\ SweepFrame

\* if self._sweep_paused.is_set()
WorkerGate ==
    /\ wizard.pc = "gate"
    /\ wizard' = [wizard EXCEPT !.pc = IF wizard.paused THEN "pause_A" ELSE "poll"]
    /\ SweepFrame

\* paused: write_cmd("A"), sleep, continue
WorkerPauseStop ==
    /\ wizard.pc = "pause_A"
    /\ wizard' = [wizard EXCEPT !.last = "A", !.by = "worker", !.pc = "loop"]
    /\ SweepFrame

\* poll C2 and integrate the CW delta
WorkerPoll ==
    /\ wizard.pc = "poll"
    /\ wizard.polls < MaxPolls
    /\ \E reply \in AzReadings \cup {None} :
       \E az \in {parse_c2_az_el(reply)} :
          IF az = None
          THEN wizard' = [wizard EXCEPT !.polls = @ + 1, !.pc = "sleep"]
          ELSE LET az_f == az % TURN
                   total == wizard.total_travel + cw_delta(az_f, wizard.prev_az)
               IN  wizard' = [wizard EXCEPT
                        !.polls = @ + 1,
                        !.total_travel = total,
                        !.prev_az = az_f,
                        !.shown = IF wizard.seen = None THEN @
                                  ELSE @ + ShownCw(az_f, wizard.seen),
                        !.seen = az_f,
                        !.pc = IF total >= TURN THEN "done_A" ELSE "sleep"]
    /\ SweepFrame

\* 360 reached: write_cmd("A"), _on_sweep_done(), break
WorkerDone ==
    /\ wizard.pc = "done_A"
    /\ wizard' = [wizard EXCEPT !.last = "A", !.by = "worker",
                                !.done_pending = TRUE, !.resumed = FALSE,
                                !.pc = "finally"]
    /\ SweepFrame

\* the sleep between polls
WorkerSleep ==
    /\ wizard.pc = "sleep"
    /\ wizard' = [wizard EXCEPT !.pc = "loop"]
    /\ SweepFrame

\* finally: self._sweep_running = False
WorkerFinally ==
    /\ wizard.pc = "finally"
    /\ wizard' = [wizard EXCEPT !.running = FALSE, !.pc = "idle"]
    /\ SweepFrame

InitSweep ==
    /\ TrackerIdle
    /\ held = {} /\ call = NoCall /\ scan = NoScan /\ calc = NoCalc
    /\ wizard = SweepIdle

NextSweep ==
    \/ StartSweep \/ PauseSweep
    \/ ResumeSpeed \/ ResumeRotate \/ ResumeClear
    \/ StopRaise \/ StopClearPause \/ StopWrite \/ StopSplash
    \/ GotoSweep \/ EnableComplete
    \/ WorkerC2 \/ WorkerMove \/ WorkerSpeed \/ WorkerRotate
    \/ WorkerLoop \/ WorkerGate \/ WorkerPauseStop \/ WorkerPoll
    \/ WorkerDone \/ WorkerSleep \/ WorkerFinally

SpecSweep == InitSweep /\ [][NextSweep]_vars

\* C34 as claimed: after Stop + Restart has written 'S' the worker writes
\* no W, Xn or R until the user starts a new action.
C34_NoMotionAfterStop ==
    wizard.estop => ~(wizard.by = "worker" /\ wizard.last \in MotionStart)

\* C35 as claimed: once Resume has returned and the worker is in its
\* polling loop, the last motion command on the link is R (until the next
\* button or the end of the sweep).
C35_ResumeKeepsRotating ==
    (wizard.resumed /\ wizard.pc \notin {"c2", "move", "speed", "rotate"})
    => wizard.last = "R"

\* C36 as claimed: Complete is enabled only after the azimuths read have
\* advanced 360 deg clockwise in total, and the integrated travel is never
\* more than that advance.
C36_CompleteAfterFullTurn ==
    /\ wizard.complete => wizard.shown >= TURN
    /\ wizard.total_travel <= wizard.shown

(***************************************************************************)
(* The readers of three-line element files: pass_visibility._read_tle_file *)
(* with the loop of compute_pass_visibility_for_file over its blocks, and  *)
(* load_tle_lookup of main_gs232b.py.  A file is a sequence of lines, a    *)
(* line a sequence of characters.  Whether EarthSatellite(l1, l2, name)    *)
(* and the scan of a block raise is an input: fails is the block that      *)
(* does (0: none).                                                         *)
(***************************************************************************)
\* lines of one file, and satellites of one file of whole blocks
MaxLines == 5
MaxSats == 3

IssName == <<"I", "S", "S">>
Ao7Name == <<"a", "o", " ", "7">>
Line1 == <<"1", " ", "2", "5", "5", "4", "4", "U">>
Line2 == <<"2", " ", "2", "5", "5", "4", "4">>
JunkLine == <<"#", " ", "x">>
SpaceLine == <<" ">>

LinePool == {IssName, Ao7Name, Line1, Line2, JunkLine, SpaceLine}

\* files of any lines, and files of whole blocks
LineFiles == UNION {[1..n -> LinePool] : n \in 1..MaxLines}
BlockOf(name) == <<name, Line1, Line2>>

RECURSIVE BlockFilesOf(_)
BlockFilesOf(n) ==
    IF n = 0 THEN {<<>>}
    ELSE {BlockOf(name) \o rest :
             name \in {IssName, Ao7Name}, rest \in BlockFilesOf(n - 1)}

BlockFiles == UNION {BlockFilesOf(n) : n \in 2..MaxSats}

\* s.startswith(prefix)
startswith(s, prefix) ==
    Len(s) >= Len(prefix) /\ SubSeq(s, 1, Len(prefix)) = prefix

\* [ln.strip() for ln in f if ln.strip()]
stripped_lines(file) ==
    LET all == [i \in DOMAIN file |-> strip(file[i])]
    IN  SelectSeq(all, LAMBDA ln : ln # <<>>)

Fits_line1_only(lines, i) ==
    startswith(lines[i + 1], <<"1", " ">>)

Fits(lines, i) ==
    /\ startswith(lines[i + 1], <<"1", " ">>)
    /\ startswith(lines[i + 2], <<"2", " ">>)

RECURSIVE read_from(_, _, _)
\* the while loop of _read_tle_file from index i (1-based here)
read_from(lines, i, sats) ==
    IF i > Len(lines) - 2 THEN sats
    ELSE IF Fits(lines, i)
         THEN read_from(lines, i + 3,
                        Append(sats, [name |-> lines[i], l1 |-> lines[i + 1],
                                      l2 |-> lines[i + 2], at |-> i]))
         ELSE read_from(lines, i + 1, sats)

\* the blocks with the position of their name line (at) kept beside them
read_tle_file(file) == read_from(stripped_lines(file), 1, <<>>)

UpperOf(ch) ==
    IF ch = "a" THEN "A" ELSE IF ch = "o" THEN "O" ELSE ch

\* "".join((s or "").upper().split())
norm_name(s) ==
    LET up == [i \in DOMAIN s |-> UpperOf(s[i])]
    IN  SelectSeq(up, LAMBDA ch : ch \notin Whitespace)

EmptyLookup == [k \in {} |-> <<>>]

RECURSIVE lookup_from(_, _, _)
\* the while loop of load_tle_lookup: the name and the NORAD number are keys
lookup_from(lines, i, lk) ==
    IF i > Len(lines) - 2 THEN lk
    ELSE IF Fits(lines, i)
         THEN LET pair == <<lines[i + 1], lines[i + 2]>>
                  norad == strip(Slice(lines[i + 1], 2, 7))
              IN  lookup_from(lines, i + 3,
                     (norad :> pair) @@ (norm_name(lines[i]) :> pair) @@ lk)
         ELSE lookup_from(lines, i + 1, lk)

load_tle_lookup(file) == lookup_from(stripped_lines(file), 1, EmptyLookup)

\* the elevations of a satellite over the samples of the window: the ISS
\* rises to 40 deg, the others stay at 5 deg
SatProfile(name) ==
    [k \in 0..(MaxSamples - 1) |->
        IF name = IssName /\ k = MaxSamples - 2 THEN 40 ELSE 5]

EmptySummaries == [k \in {} |-> <<>>]

RECURSIVE summaries_from(_, _, _, _)
\* the loop over tle_blocks: no block is guarded, an exception ends the call
summaries_from(tle_blocks, k, fails, summaries) ==
    IF k > Len(tle_blocks)
    THEN [exc |-> "none", summaries |-> summaries]
    ELSE IF k = fails
         THEN [exc |-> "ValueError", summaries |-> EmptySummaries]
         ELSE summaries_from(tle_blocks, k + 1, fails,
                 (tle_blocks[k].name :>
                     pass_summary(SatProfile(tle_blocks[k].name), VisNow,
                                  40, 40, 20, 20).passes) @@ summaries)

compute_pass_visibility_for_file(file, fails) ==
    LET tle_blocks == read_tle_file(file)
        r == summaries_from(tle_blocks, 1, fails, EmptySummaries)
    IN  [tle_blocks |-> tle_blocks, exc |-> r.exc, summaries |-> r.summaries]

\* one call of compute_pass_visibility_for_file
PassVisibility ==
    /\ calc.fn = "compute_pass_visibility_for_file"
    /\ ~calc.done
    /\ \E r \in {compute_pass_visibility_for_file(calc.file, calc.fails)} :
          calc' = [calc EXCEPT !.done = TRUE, !.tle_blocks = r.tle_blocks,
                               !.exc = r.exc, !.summaries = r.summaries]
    /\ UNCHANGED rest_vars

\* one call of load_tle_lookup
LoadLookup ==
    /\ calc.fn = "load_tle_lookup"
    /\ ~calc.done
    /\ calc' = [calc EXCEPT !.done = TRUE, !.lk = load_tle_lookup(calc.file)]
    /\ UNCHANGED rest_vars

InitTle ==
    /\ Idle
    /\ \E file \in LineFiles \cup BlockFiles :
       \E fn \in {"compute_pass_visibility_for_file", "load_tle_lookup"} :
       \E fails \in 0..(IF fn = "load_tle_lookup" THEN 0
                        ELSE Len(read_tle_file(file))) :
          calc = [fn |-> fn, done |-> FALSE, file |-> file, fails |-> fails,
                  tle_blocks |-> <<>>, exc |-> "none",
                  summaries |-> EmptySummaries, lk |-> EmptyLookup]

NextTle == PassVisibility \/ LoadLookup

SpecTle == InitTle /\ [][NextTle]_vars

\* C37: when the load or the scan of one satellite of a file fails, every
\* other satellite of the file still has its entry in the summaries.
C37_FailureIsolated ==
    (calc.fn = "compute_pass_visibility_for_file" /\ calc.done
        /\ calc.fails # 0)
    => \A k \in DOMAIN calc.tle_blocks :
          k # calc.fails => calc.tle_blocks[k].name \in DOMAIN calc.summaries

IsElementLine(ln) ==
    startswith(ln, <<"1", " ">>) \/ startswith(ln, <<"2", " ">>)

\* the positions of the file where a name line is followed by its two
\* element lines
TriplesIn(lines) ==
    {j \in 1..(Len(lines) - 2) : ~IsElementLine(lines[j]) /\ Fits(lines, j)}

\* C38: every block read from a file has a line 1 that starts with "1 " and
\* a line 2 that starts with "2 "; every name line followed by its two
\* element lines is returned, whatever lines come before it; the blocks come
\* in file order and no two of them share a line; the lookup holds such a
\* pair of lines under the name of every such triple.
C38_ReaderResynchronises ==
    /\ (calc.fn = "compute_pass_visibility_for_file" /\ calc.done)
       => LET lines == stripped_lines(calc.file)
              sats == calc.tle_blocks
          IN  /\ \A k \in DOMAIN sats :
                    /\ startswith(sats[k].l1, <<"1", " ">>)
                    /\ startswith(sats[k].l2, <<"2", " ">>)
                    /\ sats[k].name = lines[sats[k].at]
                    /\ sats[k].l1 = lines[sats[k].at + 1]
                    /\ sats[k].l2 = lines[sats[k].at + 2]
              /\ \A j \in TriplesIn(lines) :
                    \E k \in DOMAIN sats : sats[k].at = j
              /\ \A k \in DOMAIN sats :
                    k > 1 => sats[k].at >= sats[k - 1].at + 3
    /\ (calc.fn = "load_tle_lookup" /\ calc.done)
       => LET lines == stripped_lines(calc.file)
          IN  /\ \A key \in DOMAIN calc.lk :
                    /\ startswith(calc.lk[key][1], <<"1", " ">>)
                    /\ startswith(calc.lk[key][2], <<"2", " ">>)
              /\ \A j \in TriplesIn(lines) :
                    /\ norm_name(lines[j]) \in DOMAIN calc.lk
                    /\ \E i \in TriplesIn(lines) :
                          /\ norm_name(lines[i]) = norm_name(lines[j])
                          /\ calc.lk[norm_name(lines[j])]
                                = <<lines[i + 1], lines[i + 2]>>

\* a file whose block follows an orphan line 1 and a junk line has been read
C38_Witness ==
    /\ calc.fn = "compute_pass_visibility_for_file"
    /\ calc.done
    /\ Len(calc.file) = MaxLines
    /\ calc.file[1] = Line1
    /\ calc.file[2] = JunkLine
    /\ Len(calc.tle_blocks) = 1
    /\ calc.tle_blocks[1].at = 3
    /\ calc.tle_blocks[1].name = Ao7Name

(***************************************************************************)
(* kep_to_state.ConvertKepToStateVectors without Skyfield: the elements of *)
(* ConvertTLEToKepElem for the 90 minutes from now, and the elapsed time   *)
(* of every satellite over a time vector of its own.  Here a day-of-year   *)
(* is counted in minutes, and the samples are kept times                   *)
(* (num_time_pts - 1) as before.                                           *)
(***************************************************************************)
MinPerHour == 60
\* timedelta(minutes=90)
LIVE_WINDOW_MIN == 90

\* utc_now + 90 minutes as ConvertTLEToKepElem sees it: the whole hour it
\* falls in (the call compares days of the year and returns rows per sample)
utc_future(utc_now) ==
    IF utc_now.hour < HoursPerDay - 1
    THEN Date(utc_now.year, utc_now.month, utc_now.day, utc_now.hour + 1)
    ELSE IF utc_now.day < DaysInMonth(utc_now.year, utc_now.month)
    THEN Date(utc_now.year, utc_now.month, utc_now.day + 1, 0)
    ELSE IF utc_now.month < 12
    THEN Date(utc_now.year, utc_now.month + 1, 1, 0)
    ELSE Date(utc_now.year + 1, 1, 1, 0)

\* the name whose epoch the code reads before its loop
EPOCH_KEY == "ISS (ZARYA)"

\* time_vec - epoch_days for one satellite, in minutes
live_delta_time_vec(time_vec, epoch_days) ==
    [i \in DOMAIN time_vec |->
        time_vec[i] - epoch_days * MinPerHour * (num_time_pts - 1)]

\* time_vec - epoch_days where epoch_days is the satellite's own epoch
live_delta_own_epoch(kep_elem_dict, key, time_vec) ==
    live_delta_time_vec(time_vec, kep_elem_dict[key].epoch_days)

\* the loop over kep_elem_dict: epoch_days was read once before the loop
live_delta(kep_elem_dict, key, time_vec) ==
    live_delta_time_vec(time_vec, kep_elem_dict[EPOCH_KEY].epoch_days)

ConvertKepToStateVectors(tle_dict, utc_now, no_conv) ==
    LET kep == ConvertTLEToKepElem(tle_dict, utc_now, utc_future(utc_now),
                                   no_conv)
        start_day == Date_to_nth_day(utc_now) * MinPerHour
        end_day == start_day + LIVE_WINDOW_MIN
        time_vec == linspace(start_day, end_day, num_time_pts)
    IN  IF kep.outcome # "return"
        THEN [outcome |-> kep.outcome, kep_elem_dict |-> EmptyResults,
              time_vec |-> <<>>, delta |-> EmptyResults]
        ELSE IF EPOCH_KEY \notin DOMAIN kep.results
        THEN [outcome |-> "KeyError", kep_elem_dict |-> kep.results,
              time_vec |-> time_vec, delta |-> EmptyResults]
        ELSE [outcome |-> "return", kep_elem_dict |-> kep.results,
              time_vec |-> time_vec,
              delta |-> [key \in DOMAIN kep.results |->
                            live_delta(kep.results, key, time_vec)]]

\* one call of ConvertKepToStateVectors(tle_dict)
LivePredict ==
    /\ calc.fn = "ConvertKepToStateVectors"
    /\ ~calc.done
    /\ \E r \in {ConvertKepToStateVectors(calc.tle_dict, calc.utc_now,
                                          calc.no_conv)} :
          calc' = [calc EXCEPT !.done = TRUE, !.outcome = r.outcome,
                               !.kep_elem_dict = r.kep_elem_dict,
                               !.time_vec = r.time_vec, !.delta = r.delta]
    /\ UNCHANGED rest_vars

InitLive ==
    /\ Idle
    /\ \E tle_dict \in TleDicts, utc_now \in Dates :
       \E no_conv \in [1..Len(tle_dict) -> 0..num_time_pts] :
          /\ \A s, t \in 1..Len(tle_dict) :
                s < t => tle_dict[s].sat_name # tle_dict[t].sat_name
          /\ calc = [fn |-> "ConvertKepToStateVectors", done |-> FALSE,
                     tle_dict |-> tle_dict, utc_now |-> utc_now,
                     no_conv |-> no_conv, outcome |-> "none",
                     kep_elem_dict |-> EmptyResults, time_vec |-> <<>>,
                     delta |-> EmptyResults]

NextLive == LivePredict

SpecLive == InitLive /\ [][NextLive]_vars

\* C39: whenever the elements of the selected satellites were obtained, the
\* call returns, and the elapsed times of every selected satellite are the
\* samples of the time vector less that satellite's own epoch, with or
\* without the ISS among them.
C39_OwnEpoch ==
    (calc.fn = "ConvertKepToStateVectors" /\ calc.done
        /\ calc.outcome \in {"return", "KeyError"})
    => /\ calc.outcome = "return"
       /\ \A s \in DOMAIN calc.tle_dict :
             LET key == calc.tle_dict[s].sat_name
             IN  /\ key \in DOMAIN calc.delta
                 /\ calc.delta[key]
                       = live_delta_own_epoch(calc.kep_elem_dict, key,
                                              calc.time_vec)

====
